---- MODULE Spec2Model ----
(***************************************************************************)
(* Model of the rsubmitter extractor crate: the extractor registry and     *)
(* factory (factory.rs, extractors/mod.rs, proc-macro/registry), the three *)
(* site extractors (luogu.rs, vjudge.rs, xyd.rs), and the normalizers      *)
(* (models/submission.rs, utils.rs).                                       *)
(*                                                                         *)
(* Strings are sequences of characters.  A printable ASCII character is    *)
(* written as itself; tab, line feed, form feed and carriage return as the *)
(* escapes "\t", "\n", "\f", "\r"; every other character as its code point *)
(* in at least four hexadecimal digits: "U+6D1B", "U+00A0", "U+0060" for   *)
(* the grave accent.  Option<T> is a sequence of length at most one: <<>>  *)
(* is None and <<v>> is Some(v).                                           *)
(***************************************************************************)
EXTENDS Integers, Sequences, FiniteSets, TLC

----------------------------------------------------------------------------
(* Characters and the string operations of the Rust standard library.      *)

\* char::to_lowercase: the characters it changes, each with its lower case
\* (the tables of Unicode 17; U+0130 is the one character with two)
LowerOf ==
  LET map(t) ==
        [c \in {t[2 * k - 1] : k \in 1..(Len(t) \div 2)} \cup {"U+0130"} |->
           IF c = "U+0130" THEN <<"i","U+0307">>
           ELSE <<t[2 * (CHOOSE k \in 1..(Len(t) \div 2) : t[2 * k - 1] = c)]>>]
  \* a character, its lower case, the next character, its lower case, ...
  IN  map(<<
    "A","a","B","b","C","c","D","d","E","e","F","f","G","g","H","h","I","i",
    "J","j","K","k","L","l","M","m","N","n","O","o","P","p","Q","q","R","r",
    "S","s","T","t","U","u","V","v","W","w","X","x","Y","y","Z","z","U+00C0",
    "U+00E0","U+00C1","U+00E1","U+00C2","U+00E2","U+00C3","U+00E3","U+00C4",
    "U+00E4","U+00C5","U+00E5","U+00C6","U+00E6","U+00C7","U+00E7","U+00C8",
    "U+00E8","U+00C9","U+00E9","U+00CA","U+00EA","U+00CB","U+00EB","U+00CC",
    "U+00EC","U+00CD","U+00ED","U+00CE","U+00EE","U+00CF","U+00EF","U+00D0",
    "U+00F0","U+00D1","U+00F1","U+00D2","U+00F2","U+00D3","U+00F3","U+00D4",
    "U+00F4","U+00D5","U+00F5","U+00D6","U+00F6","U+00D8","U+00F8","U+00D9",
    "U+00F9","U+00DA","U+00FA","U+00DB","U+00FB","U+00DC","U+00FC","U+00DD",
    "U+00FD","U+00DE","U+00FE","U+0100","U+0101","U+0102","U+0103","U+0104",
    "U+0105","U+0106","U+0107","U+0108","U+0109","U+010A","U+010B","U+010C",
    "U+010D","U+010E","U+010F","U+0110","U+0111","U+0112","U+0113","U+0114",
    "U+0115","U+0116","U+0117","U+0118","U+0119","U+011A","U+011B","U+011C",
    "U+011D","U+011E","U+011F","U+0120","U+0121","U+0122","U+0123","U+0124",
    "U+0125","U+0126","U+0127","U+0128","U+0129","U+012A","U+012B","U+012C",
    "U+012D","U+012E","U+012F","U+0132","U+0133","U+0134","U+0135","U+0136",
    "U+0137","U+0139","U+013A","U+013B","U+013C","U+013D","U+013E","U+013F",
    "U+0140","U+0141","U+0142","U+0143","U+0144","U+0145","U+0146","U+0147",
    "U+0148","U+014A","U+014B","U+014C","U+014D","U+014E","U+014F","U+0150",
    "U+0151","U+0152","U+0153","U+0154","U+0155","U+0156","U+0157","U+0158",
    "U+0159","U+015A","U+015B","U+015C","U+015D","U+015E","U+015F","U+0160",
    "U+0161","U+0162","U+0163","U+0164","U+0165","U+0166","U+0167","U+0168",
    "U+0169","U+016A","U+016B","U+016C","U+016D","U+016E","U+016F","U+0170",
    "U+0171","U+0172","U+0173","U+0174","U+0175","U+0176","U+0177","U+0178",
    "U+00FF","U+0179","U+017A","U+017B","U+017C","U+017D","U+017E","U+0181",
    "U+0253","U+0182","U+0183","U+0184","U+0185","U+0186","U+0254","U+0187",
    "U+0188","U+0189","U+0256","U+018A","U+0257","U+018B","U+018C","U+018E",
    "U+01DD","U+018F","U+0259","U+0190","U+025B","U+0191","U+0192","U+0193",
    "U+0260","U+0194","U+0263","U+0196","U+0269","U+0197","U+0268","U+0198",
    "U+0199","U+019C","U+026F","U+019D","U+0272","U+019F","U+0275","U+01A0",
    "U+01A1","U+01A2","U+01A3","U+01A4","U+01A5","U+01A6","U+0280","U+01A7",
    "U+01A8","U+01A9","U+0283","U+01AC","U+01AD","U+01AE","U+0288","U+01AF",
    "U+01B0","U+01B1","U+028A","U+01B2","U+028B","U+01B3","U+01B4","U+01B5",
    "U+01B6","U+01B7","U+0292","U+01B8","U+01B9","U+01BC","U+01BD","U+01C4",
    "U+01C6","U+01C5","U+01C6","U+01C7","U+01C9","U+01C8","U+01C9","U+01CA",
    "U+01CC","U+01CB","U+01CC","U+01CD","U+01CE","U+01CF","U+01D0","U+01D1",
    "U+01D2","U+01D3","U+01D4","U+01D5","U+01D6","U+01D7","U+01D8","U+01D9",
    "U+01DA","U+01DB","U+01DC","U+01DE","U+01DF","U+01E0","U+01E1","U+01E2",
    "U+01E3","U+01E4","U+01E5","U+01E6","U+01E7","U+01E8","U+01E9","U+01EA",
    "U+01EB","U+01EC","U+01ED","U+01EE","U+01EF","U+01F1","U+01F3","U+01F2",
    "U+01F3","U+01F4","U+01F5","U+01F6","U+0195","U+01F7","U+01BF","U+01F8",
    "U+01F9","U+01FA","U+01FB","U+01FC","U+01FD","U+01FE","U+01FF","U+0200",
    "U+0201","U+0202","U+0203","U+0204","U+0205","U+0206","U+0207","U+0208",
    "U+0209","U+020A","U+020B","U+020C","U+020D","U+020E","U+020F","U+0210",
    "U+0211","U+0212","U+0213","U+0214","U+0215","U+0216","U+0217","U+0218",
    "U+0219","U+021A","U+021B","U+021C","U+021D","U+021E","U+021F","U+0220",
    "U+019E","U+0222","U+0223","U+0224","U+0225","U+0226","U+0227","U+0228",
    "U+0229","U+022A","U+022B","U+022C","U+022D","U+022E","U+022F","U+0230",
    "U+0231","U+0232","U+0233","U+023A","U+2C65","U+023B","U+023C","U+023D",
    "U+019A","U+023E","U+2C66","U+0241","U+0242","U+0243","U+0180","U+0244",
    "U+0289","U+0245","U+028C","U+0246","U+0247","U+0248","U+0249","U+024A",
    "U+024B","U+024C","U+024D","U+024E","U+024F","U+0370","U+0371","U+0372",
    "U+0373","U+0376","U+0377","U+037F","U+03F3","U+0386","U+03AC","U+0388",
    "U+03AD","U+0389","U+03AE","U+038A","U+03AF","U+038C","U+03CC","U+038E",
    "U+03CD","U+038F","U+03CE","U+0391","U+03B1","U+0392","U+03B2","U+0393",
    "U+03B3","U+0394","U+03B4","U+0395","U+03B5","U+0396","U+03B6","U+0397",
    "U+03B7","U+0398","U+03B8","U+0399","U+03B9","U+039A","U+03BA","U+039B",
    "U+03BB","U+039C","U+03BC","U+039D","U+03BD","U+039E","U+03BE","U+039F",
    "U+03BF","U+03A0","U+03C0","U+03A1","U+03C1","U+03A3","U+03C3","U+03A4",
    "U+03C4","U+03A5","U+03C5","U+03A6","U+03C6","U+03A7","U+03C7","U+03A8",
    "U+03C8","U+03A9","U+03C9","U+03AA","U+03CA","U+03AB","U+03CB","U+03CF",
    "U+03D7","U+03D8","U+03D9","U+03DA","U+03DB","U+03DC","U+03DD","U+03DE",
    "U+03DF","U+03E0","U+03E1","U+03E2","U+03E3","U+03E4","U+03E5","U+03E6",
    "U+03E7","U+03E8","U+03E9","U+03EA","U+03EB","U+03EC","U+03ED","U+03EE",
    "U+03EF","U+03F4","U+03B8","U+03F7","U+03F8","U+03F9","U+03F2","U+03FA",
    "U+03FB","U+03FD","U+037B","U+03FE","U+037C","U+03FF","U+037D","U+0400",
    "U+0450","U+0401","U+0451","U+0402","U+0452","U+0403","U+0453","U+0404",
    "U+0454","U+0405","U+0455","U+0406","U+0456","U+0407","U+0457","U+0408",
    "U+0458","U+0409","U+0459","U+040A","U+045A","U+040B","U+045B","U+040C",
    "U+045C","U+040D","U+045D","U+040E","U+045E","U+040F","U+045F","U+0410",
    "U+0430","U+0411","U+0431","U+0412","U+0432","U+0413","U+0433","U+0414",
    "U+0434","U+0415","U+0435","U+0416","U+0436","U+0417","U+0437","U+0418",
    "U+0438","U+0419","U+0439","U+041A","U+043A","U+041B","U+043B","U+041C",
    "U+043C","U+041D","U+043D","U+041E","U+043E","U+041F","U+043F","U+0420",
    "U+0440","U+0421","U+0441","U+0422","U+0442","U+0423","U+0443","U+0424",
    "U+0444","U+0425","U+0445","U+0426","U+0446","U+0427","U+0447","U+0428",
    "U+0448","U+0429","U+0449","U+042A","U+044A","U+042B","U+044B","U+042C",
    "U+044C","U+042D","U+044D","U+042E","U+044E","U+042F","U+044F","U+0460",
    "U+0461","U+0462","U+0463","U+0464","U+0465","U+0466","U+0467","U+0468",
    "U+0469","U+046A","U+046B","U+046C","U+046D","U+046E","U+046F","U+0470",
    "U+0471","U+0472","U+0473","U+0474","U+0475","U+0476","U+0477","U+0478",
    "U+0479","U+047A","U+047B","U+047C","U+047D","U+047E","U+047F","U+0480",
    "U+0481","U+048A","U+048B","U+048C","U+048D","U+048E","U+048F","U+0490",
    "U+0491","U+0492","U+0493","U+0494","U+0495","U+0496","U+0497","U+0498",
    "U+0499","U+049A","U+049B","U+049C","U+049D","U+049E","U+049F","U+04A0",
    "U+04A1","U+04A2","U+04A3","U+04A4","U+04A5","U+04A6","U+04A7","U+04A8",
    "U+04A9","U+04AA","U+04AB","U+04AC","U+04AD","U+04AE","U+04AF","U+04B0",
    "U+04B1","U+04B2","U+04B3","U+04B4","U+04B5","U+04B6","U+04B7","U+04B8",
    "U+04B9","U+04BA","U+04BB","U+04BC","U+04BD","U+04BE","U+04BF","U+04C0",
    "U+04CF","U+04C1","U+04C2","U+04C3","U+04C4","U+04C5","U+04C6","U+04C7",
    "U+04C8","U+04C9","U+04CA","U+04CB","U+04CC","U+04CD","U+04CE","U+04D0",
    "U+04D1","U+04D2","U+04D3","U+04D4","U+04D5","U+04D6","U+04D7","U+04D8",
    "U+04D9","U+04DA","U+04DB","U+04DC","U+04DD","U+04DE","U+04DF","U+04E0",
    "U+04E1","U+04E2","U+04E3","U+04E4","U+04E5","U+04E6","U+04E7","U+04E8",
    "U+04E9","U+04EA","U+04EB","U+04EC","U+04ED","U+04EE","U+04EF","U+04F0",
    "U+04F1","U+04F2","U+04F3","U+04F4","U+04F5","U+04F6","U+04F7","U+04F8",
    "U+04F9","U+04FA","U+04FB","U+04FC","U+04FD","U+04FE","U+04FF","U+0500",
    "U+0501","U+0502","U+0503","U+0504","U+0505","U+0506","U+0507","U+0508",
    "U+0509","U+050A","U+050B","U+050C","U+050D","U+050E","U+050F","U+0510",
    "U+0511","U+0512","U+0513","U+0514","U+0515","U+0516","U+0517","U+0518",
    "U+0519","U+051A","U+051B","U+051C","U+051D","U+051E","U+051F","U+0520",
    "U+0521","U+0522","U+0523","U+0524","U+0525","U+0526","U+0527","U+0528",
    "U+0529","U+052A","U+052B","U+052C","U+052D","U+052E","U+052F","U+0531",
    "U+0561","U+0532","U+0562","U+0533","U+0563","U+0534","U+0564","U+0535",
    "U+0565","U+0536","U+0566","U+0537","U+0567","U+0538","U+0568","U+0539",
    "U+0569","U+053A","U+056A","U+053B","U+056B","U+053C","U+056C","U+053D",
    "U+056D","U+053E","U+056E","U+053F","U+056F","U+0540","U+0570","U+0541",
    "U+0571","U+0542","U+0572","U+0543","U+0573","U+0544","U+0574","U+0545",
    "U+0575","U+0546","U+0576","U+0547","U+0577","U+0548","U+0578","U+0549",
    "U+0579","U+054A","U+057A","U+054B","U+057B","U+054C","U+057C","U+054D",
    "U+057D","U+054E","U+057E","U+054F","U+057F","U+0550","U+0580","U+0551",
    "U+0581","U+0552","U+0582","U+0553","U+0583","U+0554","U+0584","U+0555",
    "U+0585","U+0556","U+0586","U+10A0","U+2D00","U+10A1","U+2D01","U+10A2",
    "U+2D02","U+10A3","U+2D03","U+10A4","U+2D04","U+10A5","U+2D05","U+10A6",
    "U+2D06","U+10A7","U+2D07","U+10A8","U+2D08","U+10A9","U+2D09","U+10AA",
    "U+2D0A","U+10AB","U+2D0B","U+10AC","U+2D0C","U+10AD","U+2D0D","U+10AE",
    "U+2D0E","U+10AF","U+2D0F","U+10B0","U+2D10","U+10B1","U+2D11","U+10B2",
    "U+2D12","U+10B3","U+2D13","U+10B4","U+2D14","U+10B5","U+2D15","U+10B6",
    "U+2D16","U+10B7","U+2D17","U+10B8","U+2D18","U+10B9","U+2D19","U+10BA",
    "U+2D1A","U+10BB","U+2D1B","U+10BC","U+2D1C","U+10BD","U+2D1D","U+10BE",
    "U+2D1E","U+10BF","U+2D1F","U+10C0","U+2D20","U+10C1","U+2D21","U+10C2",
    "U+2D22","U+10C3","U+2D23","U+10C4","U+2D24","U+10C5","U+2D25","U+10C7",
    "U+2D27","U+10CD","U+2D2D","U+13A0","U+AB70","U+13A1","U+AB71","U+13A2",
    "U+AB72","U+13A3","U+AB73","U+13A4","U+AB74","U+13A5","U+AB75","U+13A6",
    "U+AB76","U+13A7","U+AB77","U+13A8","U+AB78","U+13A9","U+AB79","U+13AA",
    "U+AB7A","U+13AB","U+AB7B","U+13AC","U+AB7C","U+13AD","U+AB7D","U+13AE",
    "U+AB7E","U+13AF","U+AB7F","U+13B0","U+AB80","U+13B1","U+AB81","U+13B2",
    "U+AB82","U+13B3","U+AB83","U+13B4","U+AB84","U+13B5","U+AB85","U+13B6",
    "U+AB86","U+13B7","U+AB87","U+13B8","U+AB88","U+13B9","U+AB89","U+13BA",
    "U+AB8A","U+13BB","U+AB8B","U+13BC","U+AB8C","U+13BD","U+AB8D","U+13BE",
    "U+AB8E","U+13BF","U+AB8F","U+13C0","U+AB90","U+13C1","U+AB91","U+13C2",
    "U+AB92","U+13C3","U+AB93","U+13C4","U+AB94","U+13C5","U+AB95","U+13C6",
    "U+AB96","U+13C7","U+AB97","U+13C8","U+AB98","U+13C9","U+AB99","U+13CA",
    "U+AB9A","U+13CB","U+AB9B","U+13CC","U+AB9C","U+13CD","U+AB9D","U+13CE",
    "U+AB9E","U+13CF","U+AB9F","U+13D0","U+ABA0","U+13D1","U+ABA1","U+13D2",
    "U+ABA2","U+13D3","U+ABA3","U+13D4","U+ABA4","U+13D5","U+ABA5","U+13D6",
    "U+ABA6","U+13D7","U+ABA7","U+13D8","U+ABA8","U+13D9","U+ABA9","U+13DA",
    "U+ABAA","U+13DB","U+ABAB","U+13DC","U+ABAC","U+13DD","U+ABAD","U+13DE",
    "U+ABAE","U+13DF","U+ABAF","U+13E0","U+ABB0","U+13E1","U+ABB1","U+13E2",
    "U+ABB2","U+13E3","U+ABB3","U+13E4","U+ABB4","U+13E5","U+ABB5","U+13E6",
    "U+ABB6","U+13E7","U+ABB7","U+13E8","U+ABB8","U+13E9","U+ABB9","U+13EA",
    "U+ABBA","U+13EB","U+ABBB","U+13EC","U+ABBC","U+13ED","U+ABBD","U+13EE",
    "U+ABBE","U+13EF","U+ABBF","U+13F0","U+13F8","U+13F1","U+13F9","U+13F2",
    "U+13FA","U+13F3","U+13FB","U+13F4","U+13FC","U+13F5","U+13FD","U+1C89",
    "U+1C8A","U+1C90","U+10D0","U+1C91","U+10D1","U+1C92","U+10D2","U+1C93",
    "U+10D3","U+1C94","U+10D4","U+1C95","U+10D5","U+1C96","U+10D6","U+1C97",
    "U+10D7","U+1C98","U+10D8","U+1C99","U+10D9","U+1C9A","U+10DA","U+1C9B",
    "U+10DB","U+1C9C","U+10DC","U+1C9D","U+10DD","U+1C9E","U+10DE","U+1C9F",
    "U+10DF","U+1CA0","U+10E0","U+1CA1","U+10E1","U+1CA2","U+10E2","U+1CA3",
    "U+10E3","U+1CA4","U+10E4","U+1CA5","U+10E5","U+1CA6","U+10E6","U+1CA7",
    "U+10E7","U+1CA8","U+10E8","U+1CA9","U+10E9","U+1CAA","U+10EA","U+1CAB",
    "U+10EB","U+1CAC","U+10EC","U+1CAD","U+10ED","U+1CAE","U+10EE","U+1CAF",
    "U+10EF","U+1CB0","U+10F0","U+1CB1","U+10F1","U+1CB2","U+10F2","U+1CB3",
    "U+10F3","U+1CB4","U+10F4","U+1CB5","U+10F5","U+1CB6","U+10F6","U+1CB7",
    "U+10F7","U+1CB8","U+10F8","U+1CB9","U+10F9","U+1CBA","U+10FA","U+1CBD",
    "U+10FD","U+1CBE","U+10FE","U+1CBF","U+10FF","U+1E00","U+1E01","U+1E02",
    "U+1E03","U+1E04","U+1E05","U+1E06","U+1E07","U+1E08","U+1E09","U+1E0A",
    "U+1E0B","U+1E0C","U+1E0D","U+1E0E","U+1E0F","U+1E10","U+1E11","U+1E12",
    "U+1E13","U+1E14","U+1E15","U+1E16","U+1E17","U+1E18","U+1E19","U+1E1A",
    "U+1E1B","U+1E1C","U+1E1D","U+1E1E","U+1E1F","U+1E20","U+1E21","U+1E22",
    "U+1E23","U+1E24","U+1E25","U+1E26","U+1E27","U+1E28","U+1E29","U+1E2A",
    "U+1E2B","U+1E2C","U+1E2D","U+1E2E","U+1E2F","U+1E30","U+1E31","U+1E32",
    "U+1E33","U+1E34","U+1E35","U+1E36","U+1E37","U+1E38","U+1E39","U+1E3A",
    "U+1E3B","U+1E3C","U+1E3D","U+1E3E","U+1E3F","U+1E40","U+1E41","U+1E42",
    "U+1E43","U+1E44","U+1E45","U+1E46","U+1E47","U+1E48","U+1E49","U+1E4A",
    "U+1E4B","U+1E4C","U+1E4D","U+1E4E","U+1E4F","U+1E50","U+1E51","U+1E52",
    "U+1E53","U+1E54","U+1E55","U+1E56","U+1E57","U+1E58","U+1E59","U+1E5A",
    "U+1E5B","U+1E5C","U+1E5D","U+1E5E","U+1E5F","U+1E60","U+1E61","U+1E62",
    "U+1E63","U+1E64","U+1E65","U+1E66","U+1E67","U+1E68","U+1E69","U+1E6A",
    "U+1E6B","U+1E6C","U+1E6D","U+1E6E","U+1E6F","U+1E70","U+1E71","U+1E72",
    "U+1E73","U+1E74","U+1E75","U+1E76","U+1E77","U+1E78","U+1E79","U+1E7A",
    "U+1E7B","U+1E7C","U+1E7D","U+1E7E","U+1E7F","U+1E80","U+1E81","U+1E82",
    "U+1E83","U+1E84","U+1E85","U+1E86","U+1E87","U+1E88","U+1E89","U+1E8A",
    "U+1E8B","U+1E8C","U+1E8D","U+1E8E","U+1E8F","U+1E90","U+1E91","U+1E92",
    "U+1E93","U+1E94","U+1E95","U+1E9E","U+00DF","U+1EA0","U+1EA1","U+1EA2",
    "U+1EA3","U+1EA4","U+1EA5","U+1EA6","U+1EA7","U+1EA8","U+1EA9","U+1EAA",
    "U+1EAB","U+1EAC","U+1EAD","U+1EAE","U+1EAF","U+1EB0","U+1EB1","U+1EB2",
    "U+1EB3","U+1EB4","U+1EB5","U+1EB6","U+1EB7","U+1EB8","U+1EB9","U+1EBA",
    "U+1EBB","U+1EBC","U+1EBD","U+1EBE","U+1EBF","U+1EC0","U+1EC1","U+1EC2",
    "U+1EC3","U+1EC4","U+1EC5","U+1EC6","U+1EC7","U+1EC8","U+1EC9","U+1ECA",
    "U+1ECB","U+1ECC","U+1ECD","U+1ECE","U+1ECF","U+1ED0","U+1ED1","U+1ED2",
    "U+1ED3","U+1ED4","U+1ED5","U+1ED6","U+1ED7","U+1ED8","U+1ED9","U+1EDA",
    "U+1EDB","U+1EDC","U+1EDD","U+1EDE","U+1EDF","U+1EE0","U+1EE1","U+1EE2",
    "U+1EE3","U+1EE4","U+1EE5","U+1EE6","U+1EE7","U+1EE8","U+1EE9","U+1EEA",
    "U+1EEB","U+1EEC","U+1EED","U+1EEE","U+1EEF","U+1EF0","U+1EF1","U+1EF2",
    "U+1EF3","U+1EF4","U+1EF5","U+1EF6","U+1EF7","U+1EF8","U+1EF9","U+1EFA",
    "U+1EFB","U+1EFC","U+1EFD","U+1EFE","U+1EFF","U+1F08","U+1F00","U+1F09",
    "U+1F01","U+1F0A","U+1F02","U+1F0B","U+1F03","U+1F0C","U+1F04","U+1F0D",
    "U+1F05","U+1F0E","U+1F06","U+1F0F","U+1F07","U+1F18","U+1F10","U+1F19",
    "U+1F11","U+1F1A","U+1F12","U+1F1B","U+1F13","U+1F1C","U+1F14","U+1F1D",
    "U+1F15","U+1F28","U+1F20","U+1F29","U+1F21","U+1F2A","U+1F22","U+1F2B",
    "U+1F23","U+1F2C","U+1F24","U+1F2D","U+1F25","U+1F2E","U+1F26","U+1F2F",
    "U+1F27","U+1F38","U+1F30","U+1F39","U+1F31","U+1F3A","U+1F32","U+1F3B",
    "U+1F33","U+1F3C","U+1F34","U+1F3D","U+1F35","U+1F3E","U+1F36","U+1F3F",
    "U+1F37","U+1F48","U+1F40","U+1F49","U+1F41","U+1F4A","U+1F42","U+1F4B",
    "U+1F43","U+1F4C","U+1F44","U+1F4D","U+1F45","U+1F59","U+1F51","U+1F5B",
    "U+1F53","U+1F5D","U+1F55","U+1F5F","U+1F57","U+1F68","U+1F60","U+1F69",
    "U+1F61","U+1F6A","U+1F62","U+1F6B","U+1F63","U+1F6C","U+1F64","U+1F6D",
    "U+1F65","U+1F6E","U+1F66","U+1F6F","U+1F67","U+1F88","U+1F80","U+1F89",
    "U+1F81","U+1F8A","U+1F82","U+1F8B","U+1F83","U+1F8C","U+1F84","U+1F8D",
    "U+1F85","U+1F8E","U+1F86","U+1F8F","U+1F87","U+1F98","U+1F90","U+1F99",
    "U+1F91","U+1F9A","U+1F92","U+1F9B","U+1F93","U+1F9C","U+1F94","U+1F9D",
    "U+1F95","U+1F9E","U+1F96","U+1F9F","U+1F97","U+1FA8","U+1FA0","U+1FA9",
    "U+1FA1","U+1FAA","U+1FA2","U+1FAB","U+1FA3","U+1FAC","U+1FA4","U+1FAD",
    "U+1FA5","U+1FAE","U+1FA6","U+1FAF","U+1FA7","U+1FB8","U+1FB0","U+1FB9",
    "U+1FB1","U+1FBA","U+1F70","U+1FBB","U+1F71","U+1FBC","U+1FB3","U+1FC8",
    "U+1F72","U+1FC9","U+1F73","U+1FCA","U+1F74","U+1FCB","U+1F75","U+1FCC",
    "U+1FC3","U+1FD8","U+1FD0","U+1FD9","U+1FD1","U+1FDA","U+1F76","U+1FDB",
    "U+1F77","U+1FE8","U+1FE0","U+1FE9","U+1FE1","U+1FEA","U+1F7A","U+1FEB",
    "U+1F7B","U+1FEC","U+1FE5","U+1FF8","U+1F78","U+1FF9","U+1F79","U+1FFA",
    "U+1F7C","U+1FFB","U+1F7D","U+1FFC","U+1FF3","U+2126","U+03C9","U+212A",
    "k","U+212B","U+00E5","U+2132","U+214E","U+2160","U+2170","U+2161",
    "U+2171","U+2162","U+2172","U+2163","U+2173","U+2164","U+2174","U+2165",
    "U+2175","U+2166","U+2176","U+2167","U+2177","U+2168","U+2178","U+2169",
    "U+2179","U+216A","U+217A","U+216B","U+217B","U+216C","U+217C","U+216D",
    "U+217D","U+216E","U+217E","U+216F","U+217F","U+2183","U+2184","U+24B6",
    "U+24D0","U+24B7","U+24D1","U+24B8","U+24D2","U+24B9","U+24D3","U+24BA",
    "U+24D4","U+24BB","U+24D5","U+24BC","U+24D6","U+24BD","U+24D7","U+24BE",
    "U+24D8","U+24BF","U+24D9","U+24C0","U+24DA","U+24C1","U+24DB","U+24C2",
    "U+24DC","U+24C3","U+24DD","U+24C4","U+24DE","U+24C5","U+24DF","U+24C6",
    "U+24E0","U+24C7","U+24E1","U+24C8","U+24E2","U+24C9","U+24E3","U+24CA",
    "U+24E4","U+24CB","U+24E5","U+24CC","U+24E6","U+24CD","U+24E7","U+24CE",
    "U+24E8","U+24CF","U+24E9","U+2C00","U+2C30","U+2C01","U+2C31","U+2C02",
    "U+2C32","U+2C03","U+2C33","U+2C04","U+2C34","U+2C05","U+2C35","U+2C06",
    "U+2C36","U+2C07","U+2C37","U+2C08","U+2C38","U+2C09","U+2C39","U+2C0A",
    "U+2C3A","U+2C0B","U+2C3B","U+2C0C","U+2C3C","U+2C0D","U+2C3D","U+2C0E",
    "U+2C3E","U+2C0F","U+2C3F","U+2C10","U+2C40","U+2C11","U+2C41","U+2C12",
    "U+2C42","U+2C13","U+2C43","U+2C14","U+2C44","U+2C15","U+2C45","U+2C16",
    "U+2C46","U+2C17","U+2C47","U+2C18","U+2C48","U+2C19","U+2C49","U+2C1A",
    "U+2C4A","U+2C1B","U+2C4B","U+2C1C","U+2C4C","U+2C1D","U+2C4D","U+2C1E",
    "U+2C4E","U+2C1F","U+2C4F","U+2C20","U+2C50","U+2C21","U+2C51","U+2C22",
    "U+2C52","U+2C23","U+2C53","U+2C24","U+2C54","U+2C25","U+2C55","U+2C26",
    "U+2C56","U+2C27","U+2C57","U+2C28","U+2C58","U+2C29","U+2C59","U+2C2A",
    "U+2C5A","U+2C2B","U+2C5B","U+2C2C","U+2C5C","U+2C2D","U+2C5D","U+2C2E",
    "U+2C5E","U+2C2F","U+2C5F","U+2C60","U+2C61","U+2C62","U+026B","U+2C63",
    "U+1D7D","U+2C64","U+027D","U+2C67","U+2C68","U+2C69","U+2C6A","U+2C6B",
    "U+2C6C","U+2C6D","U+0251","U+2C6E","U+0271","U+2C6F","U+0250","U+2C70",
    "U+0252","U+2C72","U+2C73","U+2C75","U+2C76","U+2C7E","U+023F","U+2C7F",
    "U+0240","U+2C80","U+2C81","U+2C82","U+2C83","U+2C84","U+2C85","U+2C86",
    "U+2C87","U+2C88","U+2C89","U+2C8A","U+2C8B","U+2C8C","U+2C8D","U+2C8E",
    "U+2C8F","U+2C90","U+2C91","U+2C92","U+2C93","U+2C94","U+2C95","U+2C96",
    "U+2C97","U+2C98","U+2C99","U+2C9A","U+2C9B","U+2C9C","U+2C9D","U+2C9E",
    "U+2C9F","U+2CA0","U+2CA1","U+2CA2","U+2CA3","U+2CA4","U+2CA5","U+2CA6",
    "U+2CA7","U+2CA8","U+2CA9","U+2CAA","U+2CAB","U+2CAC","U+2CAD","U+2CAE",
    "U+2CAF","U+2CB0","U+2CB1","U+2CB2","U+2CB3","U+2CB4","U+2CB5","U+2CB6",
    "U+2CB7","U+2CB8","U+2CB9","U+2CBA","U+2CBB","U+2CBC","U+2CBD","U+2CBE",
    "U+2CBF","U+2CC0","U+2CC1","U+2CC2","U+2CC3","U+2CC4","U+2CC5","U+2CC6",
    "U+2CC7","U+2CC8","U+2CC9","U+2CCA","U+2CCB","U+2CCC","U+2CCD","U+2CCE",
    "U+2CCF","U+2CD0","U+2CD1","U+2CD2","U+2CD3","U+2CD4","U+2CD5","U+2CD6",
    "U+2CD7","U+2CD8","U+2CD9","U+2CDA","U+2CDB","U+2CDC","U+2CDD","U+2CDE",
    "U+2CDF","U+2CE0","U+2CE1","U+2CE2","U+2CE3","U+2CEB","U+2CEC","U+2CED",
    "U+2CEE","U+2CF2","U+2CF3","U+A640","U+A641","U+A642","U+A643","U+A644",
    "U+A645","U+A646","U+A647","U+A648","U+A649","U+A64A","U+A64B","U+A64C",
    "U+A64D","U+A64E","U+A64F","U+A650","U+A651","U+A652","U+A653","U+A654",
    "U+A655","U+A656","U+A657","U+A658","U+A659","U+A65A","U+A65B","U+A65C",
    "U+A65D","U+A65E","U+A65F","U+A660","U+A661","U+A662","U+A663","U+A664",
    "U+A665","U+A666","U+A667","U+A668","U+A669","U+A66A","U+A66B","U+A66C",
    "U+A66D","U+A680","U+A681","U+A682","U+A683","U+A684","U+A685","U+A686",
    "U+A687","U+A688","U+A689","U+A68A","U+A68B","U+A68C","U+A68D","U+A68E",
    "U+A68F","U+A690","U+A691","U+A692","U+A693","U+A694","U+A695","U+A696",
    "U+A697","U+A698","U+A699","U+A69A","U+A69B","U+A722","U+A723","U+A724",
    "U+A725","U+A726","U+A727","U+A728","U+A729","U+A72A","U+A72B","U+A72C",
    "U+A72D","U+A72E","U+A72F","U+A732","U+A733","U+A734","U+A735","U+A736",
    "U+A737","U+A738","U+A739","U+A73A","U+A73B","U+A73C","U+A73D","U+A73E",
    "U+A73F","U+A740","U+A741","U+A742","U+A743","U+A744","U+A745","U+A746",
    "U+A747","U+A748","U+A749","U+A74A","U+A74B","U+A74C","U+A74D","U+A74E",
    "U+A74F","U+A750","U+A751","U+A752","U+A753","U+A754","U+A755","U+A756",
    "U+A757","U+A758","U+A759","U+A75A","U+A75B","U+A75C","U+A75D","U+A75E",
    "U+A75F","U+A760","U+A761","U+A762","U+A763","U+A764","U+A765","U+A766",
    "U+A767","U+A768","U+A769","U+A76A","U+A76B","U+A76C","U+A76D","U+A76E",
    "U+A76F","U+A779","U+A77A","U+A77B","U+A77C","U+A77D","U+1D79","U+A77E",
    "U+A77F","U+A780","U+A781","U+A782","U+A783","U+A784","U+A785","U+A786",
    "U+A787","U+A78B","U+A78C","U+A78D","U+0265","U+A790","U+A791","U+A792",
    "U+A793","U+A796","U+A797","U+A798","U+A799","U+A79A","U+A79B","U+A79C",
    "U+A79D","U+A79E","U+A79F","U+A7A0","U+A7A1","U+A7A2","U+A7A3","U+A7A4",
    "U+A7A5","U+A7A6","U+A7A7","U+A7A8","U+A7A9","U+A7AA","U+0266","U+A7AB",
    "U+025C","U+A7AC","U+0261","U+A7AD","U+026C","U+A7AE","U+026A","U+A7B0",
    "U+029E","U+A7B1","U+0287","U+A7B2","U+029D","U+A7B3","U+AB53","U+A7B4",
    "U+A7B5","U+A7B6","U+A7B7","U+A7B8","U+A7B9","U+A7BA","U+A7BB","U+A7BC",
    "U+A7BD","U+A7BE","U+A7BF","U+A7C0","U+A7C1","U+A7C2","U+A7C3","U+A7C4",
    "U+A794","U+A7C5","U+0282","U+A7C6","U+1D8E","U+A7C7","U+A7C8","U+A7C9",
    "U+A7CA","U+A7CB","U+0264","U+A7CC","U+A7CD","U+A7CE","U+A7CF","U+A7D0",
    "U+A7D1","U+A7D2","U+A7D3","U+A7D4","U+A7D5","U+A7D6","U+A7D7","U+A7D8",
    "U+A7D9","U+A7DA","U+A7DB","U+A7DC","U+019B","U+A7F5","U+A7F6","U+FF21",
    "U+FF41","U+FF22","U+FF42","U+FF23","U+FF43","U+FF24","U+FF44","U+FF25",
    "U+FF45","U+FF26","U+FF46","U+FF27","U+FF47","U+FF28","U+FF48","U+FF29",
    "U+FF49","U+FF2A","U+FF4A","U+FF2B","U+FF4B","U+FF2C","U+FF4C","U+FF2D",
    "U+FF4D","U+FF2E","U+FF4E","U+FF2F","U+FF4F","U+FF30","U+FF50","U+FF31",
    "U+FF51","U+FF32","U+FF52","U+FF33","U+FF53","U+FF34","U+FF54","U+FF35",
    "U+FF55","U+FF36","U+FF56","U+FF37","U+FF57","U+FF38","U+FF58","U+FF39",
    "U+FF59","U+FF3A","U+FF5A","U+10400","U+10428","U+10401","U+10429",
    "U+10402","U+1042A","U+10403","U+1042B","U+10404","U+1042C","U+10405",
    "U+1042D","U+10406","U+1042E","U+10407","U+1042F","U+10408","U+10430",
    "U+10409","U+10431","U+1040A","U+10432","U+1040B","U+10433","U+1040C",
    "U+10434","U+1040D","U+10435","U+1040E","U+10436","U+1040F","U+10437",
    "U+10410","U+10438","U+10411","U+10439","U+10412","U+1043A","U+10413",
    "U+1043B","U+10414","U+1043C","U+10415","U+1043D","U+10416","U+1043E",
    "U+10417","U+1043F","U+10418","U+10440","U+10419","U+10441","U+1041A",
    "U+10442","U+1041B","U+10443","U+1041C","U+10444","U+1041D","U+10445",
    "U+1041E","U+10446","U+1041F","U+10447","U+10420","U+10448","U+10421",
    "U+10449","U+10422","U+1044A","U+10423","U+1044B","U+10424","U+1044C",
    "U+10425","U+1044D","U+10426","U+1044E","U+10427","U+1044F","U+104B0",
    "U+104D8","U+104B1","U+104D9","U+104B2","U+104DA","U+104B3","U+104DB",
    "U+104B4","U+104DC","U+104B5","U+104DD","U+104B6","U+104DE","U+104B7",
    "U+104DF","U+104B8","U+104E0","U+104B9","U+104E1","U+104BA","U+104E2",
    "U+104BB","U+104E3","U+104BC","U+104E4","U+104BD","U+104E5","U+104BE",
    "U+104E6","U+104BF","U+104E7","U+104C0","U+104E8","U+104C1","U+104E9",
    "U+104C2","U+104EA","U+104C3","U+104EB","U+104C4","U+104EC","U+104C5",
    "U+104ED","U+104C6","U+104EE","U+104C7","U+104EF","U+104C8","U+104F0",
    "U+104C9","U+104F1","U+104CA","U+104F2","U+104CB","U+104F3","U+104CC",
    "U+104F4","U+104CD","U+104F5","U+104CE","U+104F6","U+104CF","U+104F7",
    "U+104D0","U+104F8","U+104D1","U+104F9","U+104D2","U+104FA","U+104D3",
    "U+104FB","U+10570","U+10597","U+10571","U+10598","U+10572","U+10599",
    "U+10573","U+1059A","U+10574","U+1059B","U+10575","U+1059C","U+10576",
    "U+1059D","U+10577","U+1059E","U+10578","U+1059F","U+10579","U+105A0",
    "U+1057A","U+105A1","U+1057C","U+105A3","U+1057D","U+105A4","U+1057E",
    "U+105A5","U+1057F","U+105A6","U+10580","U+105A7","U+10581","U+105A8",
    "U+10582","U+105A9","U+10583","U+105AA","U+10584","U+105AB","U+10585",
    "U+105AC","U+10586","U+105AD","U+10587","U+105AE","U+10588","U+105AF",
    "U+10589","U+105B0","U+1058A","U+105B1","U+1058C","U+105B3","U+1058D",
    "U+105B4","U+1058E","U+105B5","U+1058F","U+105B6","U+10590","U+105B7",
    "U+10591","U+105B8","U+10592","U+105B9","U+10594","U+105BB","U+10595",
    "U+105BC","U+10C80","U+10CC0","U+10C81","U+10CC1","U+10C82","U+10CC2",
    "U+10C83","U+10CC3","U+10C84","U+10CC4","U+10C85","U+10CC5","U+10C86",
    "U+10CC6","U+10C87","U+10CC7","U+10C88","U+10CC8","U+10C89","U+10CC9",
    "U+10C8A","U+10CCA","U+10C8B","U+10CCB","U+10C8C","U+10CCC","U+10C8D",
    "U+10CCD","U+10C8E","U+10CCE","U+10C8F","U+10CCF","U+10C90","U+10CD0",
    "U+10C91","U+10CD1","U+10C92","U+10CD2","U+10C93","U+10CD3","U+10C94",
    "U+10CD4","U+10C95","U+10CD5","U+10C96","U+10CD6","U+10C97","U+10CD7",
    "U+10C98","U+10CD8","U+10C99","U+10CD9","U+10C9A","U+10CDA","U+10C9B",
    "U+10CDB","U+10C9C","U+10CDC","U+10C9D","U+10CDD","U+10C9E","U+10CDE",
    "U+10C9F","U+10CDF","U+10CA0","U+10CE0","U+10CA1","U+10CE1","U+10CA2",
    "U+10CE2","U+10CA3","U+10CE3","U+10CA4","U+10CE4","U+10CA5","U+10CE5",
    "U+10CA6","U+10CE6","U+10CA7","U+10CE7","U+10CA8","U+10CE8","U+10CA9",
    "U+10CE9","U+10CAA","U+10CEA","U+10CAB","U+10CEB","U+10CAC","U+10CEC",
    "U+10CAD","U+10CED","U+10CAE","U+10CEE","U+10CAF","U+10CEF","U+10CB0",
    "U+10CF0","U+10CB1","U+10CF1","U+10CB2","U+10CF2","U+10D50","U+10D70",
    "U+10D51","U+10D71","U+10D52","U+10D72","U+10D53","U+10D73","U+10D54",
    "U+10D74","U+10D55","U+10D75","U+10D56","U+10D76","U+10D57","U+10D77",
    "U+10D58","U+10D78","U+10D59","U+10D79","U+10D5A","U+10D7A","U+10D5B",
    "U+10D7B","U+10D5C","U+10D7C","U+10D5D","U+10D7D","U+10D5E","U+10D7E",
    "U+10D5F","U+10D7F","U+10D60","U+10D80","U+10D61","U+10D81","U+10D62",
    "U+10D82","U+10D63","U+10D83","U+10D64","U+10D84","U+10D65","U+10D85",
    "U+118A0","U+118C0","U+118A1","U+118C1","U+118A2","U+118C2","U+118A3",
    "U+118C3","U+118A4","U+118C4","U+118A5","U+118C5","U+118A6","U+118C6",
    "U+118A7","U+118C7","U+118A8","U+118C8","U+118A9","U+118C9","U+118AA",
    "U+118CA","U+118AB","U+118CB","U+118AC","U+118CC","U+118AD","U+118CD",
    "U+118AE","U+118CE","U+118AF","U+118CF","U+118B0","U+118D0","U+118B1",
    "U+118D1","U+118B2","U+118D2","U+118B3","U+118D3","U+118B4","U+118D4",
    "U+118B5","U+118D5","U+118B6","U+118D6","U+118B7","U+118D7","U+118B8",
    "U+118D8","U+118B9","U+118D9","U+118BA","U+118DA","U+118BB","U+118DB",
    "U+118BC","U+118DC","U+118BD","U+118DD","U+118BE","U+118DE","U+118BF",
    "U+118DF","U+16E40","U+16E60","U+16E41","U+16E61","U+16E42","U+16E62",
    "U+16E43","U+16E63","U+16E44","U+16E64","U+16E45","U+16E65","U+16E46",
    "U+16E66","U+16E47","U+16E67","U+16E48","U+16E68","U+16E49","U+16E69",
    "U+16E4A","U+16E6A","U+16E4B","U+16E6B","U+16E4C","U+16E6C","U+16E4D",
    "U+16E6D","U+16E4E","U+16E6E","U+16E4F","U+16E6F","U+16E50","U+16E70",
    "U+16E51","U+16E71","U+16E52","U+16E72","U+16E53","U+16E73","U+16E54",
    "U+16E74","U+16E55","U+16E75","U+16E56","U+16E76","U+16E57","U+16E77",
    "U+16E58","U+16E78","U+16E59","U+16E79","U+16E5A","U+16E7A","U+16E5B",
    "U+16E7B","U+16E5C","U+16E7C","U+16E5D","U+16E7D","U+16E5E","U+16E7E",
    "U+16E5F","U+16E7F","U+16EA0","U+16EBB","U+16EA1","U+16EBC","U+16EA2",
    "U+16EBD","U+16EA3","U+16EBE","U+16EA4","U+16EBF","U+16EA5","U+16EC0",
    "U+16EA6","U+16EC1","U+16EA7","U+16EC2","U+16EA8","U+16EC3","U+16EA9",
    "U+16EC4","U+16EAA","U+16EC5","U+16EAB","U+16EC6","U+16EAC","U+16EC7",
    "U+16EAD","U+16EC8","U+16EAE","U+16EC9","U+16EAF","U+16ECA","U+16EB0",
    "U+16ECB","U+16EB1","U+16ECC","U+16EB2","U+16ECD","U+16EB3","U+16ECE",
    "U+16EB4","U+16ECF","U+16EB5","U+16ED0","U+16EB6","U+16ED1","U+16EB7",
    "U+16ED2","U+16EB8","U+16ED3","U+1E900","U+1E922","U+1E901","U+1E923",
    "U+1E902","U+1E924","U+1E903","U+1E925","U+1E904","U+1E926","U+1E905",
    "U+1E927","U+1E906","U+1E928","U+1E907","U+1E929","U+1E908","U+1E92A",
    "U+1E909","U+1E92B","U+1E90A","U+1E92C","U+1E90B","U+1E92D","U+1E90C",
    "U+1E92E","U+1E90D","U+1E92F","U+1E90E","U+1E930","U+1E90F","U+1E931",
    "U+1E910","U+1E932","U+1E911","U+1E933","U+1E912","U+1E934","U+1E913",
    "U+1E935","U+1E914","U+1E936","U+1E915","U+1E937","U+1E916","U+1E938",
    "U+1E917","U+1E939","U+1E918","U+1E93A","U+1E919","U+1E93B","U+1E91A",
    "U+1E93C","U+1E91B","U+1E93D","U+1E91C","U+1E93E","U+1E91D","U+1E93F",
    "U+1E91E","U+1E940","U+1E91F","U+1E941","U+1E920","U+1E942","U+1E921",
    "U+1E943">>)

Upper == DOMAIN LowerOf

\* char::is_ascii_digit, and the digits str::parse accepts
Digits == {"0","1","2","3","4","5","6","7","8","9"}

\* \d of the regex crate: the decimal digits of every script (category Nd,
\* the tables of Unicode 16 in regex-syntax)
Nd == {
  "0","1","2","3","4","5","6","7","8","9","U+0660","U+0661","U+0662","U+0663",
  "U+0664","U+0665","U+0666","U+0667","U+0668","U+0669","U+06F0","U+06F1",
  "U+06F2","U+06F3","U+06F4","U+06F5","U+06F6","U+06F7","U+06F8","U+06F9",
  "U+07C0","U+07C1","U+07C2","U+07C3","U+07C4","U+07C5","U+07C6","U+07C7",
  "U+07C8","U+07C9","U+0966","U+0967","U+0968","U+0969","U+096A","U+096B",
  "U+096C","U+096D","U+096E","U+096F","U+09E6","U+09E7","U+09E8","U+09E9",
  "U+09EA","U+09EB","U+09EC","U+09ED","U+09EE","U+09EF","U+0A66","U+0A67",
  "U+0A68","U+0A69","U+0A6A","U+0A6B","U+0A6C","U+0A6D","U+0A6E","U+0A6F",
  "U+0AE6","U+0AE7","U+0AE8","U+0AE9","U+0AEA","U+0AEB","U+0AEC","U+0AED",
  "U+0AEE","U+0AEF","U+0B66","U+0B67","U+0B68","U+0B69","U+0B6A","U+0B6B",
  "U+0B6C","U+0B6D","U+0B6E","U+0B6F","U+0BE6","U+0BE7","U+0BE8","U+0BE9",
  "U+0BEA","U+0BEB","U+0BEC","U+0BED","U+0BEE","U+0BEF","U+0C66","U+0C67",
  "U+0C68","U+0C69","U+0C6A","U+0C6B","U+0C6C","U+0C6D","U+0C6E","U+0C6F",
  "U+0CE6","U+0CE7","U+0CE8","U+0CE9","U+0CEA","U+0CEB","U+0CEC","U+0CED",
  "U+0CEE","U+0CEF","U+0D66","U+0D67","U+0D68","U+0D69","U+0D6A","U+0D6B",
  "U+0D6C","U+0D6D","U+0D6E","U+0D6F","U+0DE6","U+0DE7","U+0DE8","U+0DE9",
  "U+0DEA","U+0DEB","U+0DEC","U+0DED","U+0DEE","U+0DEF","U+0E50","U+0E51",
  "U+0E52","U+0E53","U+0E54","U+0E55","U+0E56","U+0E57","U+0E58","U+0E59",
  "U+0ED0","U+0ED1","U+0ED2","U+0ED3","U+0ED4","U+0ED5","U+0ED6","U+0ED7",
  "U+0ED8","U+0ED9","U+0F20","U+0F21","U+0F22","U+0F23","U+0F24","U+0F25",
  "U+0F26","U+0F27","U+0F28","U+0F29","U+1040","U+1041","U+1042","U+1043",
  "U+1044","U+1045","U+1046","U+1047","U+1048","U+1049","U+1090","U+1091",
  "U+1092","U+1093","U+1094","U+1095","U+1096","U+1097","U+1098","U+1099",
  "U+17E0","U+17E1","U+17E2","U+17E3","U+17E4","U+17E5","U+17E6","U+17E7",
  "U+17E8","U+17E9","U+1810","U+1811","U+1812","U+1813","U+1814","U+1815",
  "U+1816","U+1817","U+1818","U+1819","U+1946","U+1947","U+1948","U+1949",
  "U+194A","U+194B","U+194C","U+194D","U+194E","U+194F","U+19D0","U+19D1",
  "U+19D2","U+19D3","U+19D4","U+19D5","U+19D6","U+19D7","U+19D8","U+19D9",
  "U+1A80","U+1A81","U+1A82","U+1A83","U+1A84","U+1A85","U+1A86","U+1A87",
  "U+1A88","U+1A89","U+1A90","U+1A91","U+1A92","U+1A93","U+1A94","U+1A95",
  "U+1A96","U+1A97","U+1A98","U+1A99","U+1B50","U+1B51","U+1B52","U+1B53",
  "U+1B54","U+1B55","U+1B56","U+1B57","U+1B58","U+1B59","U+1BB0","U+1BB1",
  "U+1BB2","U+1BB3","U+1BB4","U+1BB5","U+1BB6","U+1BB7","U+1BB8","U+1BB9",
  "U+1C40","U+1C41","U+1C42","U+1C43","U+1C44","U+1C45","U+1C46","U+1C47",
  "U+1C48","U+1C49","U+1C50","U+1C51","U+1C52","U+1C53","U+1C54","U+1C55",
  "U+1C56","U+1C57","U+1C58","U+1C59","U+A620","U+A621","U+A622","U+A623",
  "U+A624","U+A625","U+A626","U+A627","U+A628","U+A629","U+A8D0","U+A8D1",
  "U+A8D2","U+A8D3","U+A8D4","U+A8D5","U+A8D6","U+A8D7","U+A8D8","U+A8D9",
  "U+A900","U+A901","U+A902","U+A903","U+A904","U+A905","U+A906","U+A907",
  "U+A908","U+A909","U+A9D0","U+A9D1","U+A9D2","U+A9D3","U+A9D4","U+A9D5",
  "U+A9D6","U+A9D7","U+A9D8","U+A9D9","U+A9F0","U+A9F1","U+A9F2","U+A9F3",
  "U+A9F4","U+A9F5","U+A9F6","U+A9F7","U+A9F8","U+A9F9","U+AA50","U+AA51",
  "U+AA52","U+AA53","U+AA54","U+AA55","U+AA56","U+AA57","U+AA58","U+AA59",
  "U+ABF0","U+ABF1","U+ABF2","U+ABF3","U+ABF4","U+ABF5","U+ABF6","U+ABF7",
  "U+ABF8","U+ABF9","U+FF10","U+FF11","U+FF12","U+FF13","U+FF14","U+FF15",
  "U+FF16","U+FF17","U+FF18","U+FF19","U+104A0","U+104A1","U+104A2","U+104A3",
  "U+104A4","U+104A5","U+104A6","U+104A7","U+104A8","U+104A9","U+10D30",
  "U+10D31","U+10D32","U+10D33","U+10D34","U+10D35","U+10D36","U+10D37",
  "U+10D38","U+10D39","U+10D40","U+10D41","U+10D42","U+10D43","U+10D44",
  "U+10D45","U+10D46","U+10D47","U+10D48","U+10D49","U+11066","U+11067",
  "U+11068","U+11069","U+1106A","U+1106B","U+1106C","U+1106D","U+1106E",
  "U+1106F","U+110F0","U+110F1","U+110F2","U+110F3","U+110F4","U+110F5",
  "U+110F6","U+110F7","U+110F8","U+110F9","U+11136","U+11137","U+11138",
  "U+11139","U+1113A","U+1113B","U+1113C","U+1113D","U+1113E","U+1113F",
  "U+111D0","U+111D1","U+111D2","U+111D3","U+111D4","U+111D5","U+111D6",
  "U+111D7","U+111D8","U+111D9","U+112F0","U+112F1","U+112F2","U+112F3",
  "U+112F4","U+112F5","U+112F6","U+112F7","U+112F8","U+112F9","U+11450",
  "U+11451","U+11452","U+11453","U+11454","U+11455","U+11456","U+11457",
  "U+11458","U+11459","U+114D0","U+114D1","U+114D2","U+114D3","U+114D4",
  "U+114D5","U+114D6","U+114D7","U+114D8","U+114D9","U+11650","U+11651",
  "U+11652","U+11653","U+11654","U+11655","U+11656","U+11657","U+11658",
  "U+11659","U+116C0","U+116C1","U+116C2","U+116C3","U+116C4","U+116C5",
  "U+116C6","U+116C7","U+116C8","U+116C9","U+116D0","U+116D1","U+116D2",
  "U+116D3","U+116D4","U+116D5","U+116D6","U+116D7","U+116D8","U+116D9",
  "U+116DA","U+116DB","U+116DC","U+116DD","U+116DE","U+116DF","U+116E0",
  "U+116E1","U+116E2","U+116E3","U+11730","U+11731","U+11732","U+11733",
  "U+11734","U+11735","U+11736","U+11737","U+11738","U+11739","U+118E0",
  "U+118E1","U+118E2","U+118E3","U+118E4","U+118E5","U+118E6","U+118E7",
  "U+118E8","U+118E9","U+11950","U+11951","U+11952","U+11953","U+11954",
  "U+11955","U+11956","U+11957","U+11958","U+11959","U+11BF0","U+11BF1",
  "U+11BF2","U+11BF3","U+11BF4","U+11BF5","U+11BF6","U+11BF7","U+11BF8",
  "U+11BF9","U+11C50","U+11C51","U+11C52","U+11C53","U+11C54","U+11C55",
  "U+11C56","U+11C57","U+11C58","U+11C59","U+11D50","U+11D51","U+11D52",
  "U+11D53","U+11D54","U+11D55","U+11D56","U+11D57","U+11D58","U+11D59",
  "U+11DA0","U+11DA1","U+11DA2","U+11DA3","U+11DA4","U+11DA5","U+11DA6",
  "U+11DA7","U+11DA8","U+11DA9","U+11F50","U+11F51","U+11F52","U+11F53",
  "U+11F54","U+11F55","U+11F56","U+11F57","U+11F58","U+11F59","U+16130",
  "U+16131","U+16132","U+16133","U+16134","U+16135","U+16136","U+16137",
  "U+16138","U+16139","U+16A60","U+16A61","U+16A62","U+16A63","U+16A64",
  "U+16A65","U+16A66","U+16A67","U+16A68","U+16A69","U+16AC0","U+16AC1",
  "U+16AC2","U+16AC3","U+16AC4","U+16AC5","U+16AC6","U+16AC7","U+16AC8",
  "U+16AC9","U+16B50","U+16B51","U+16B52","U+16B53","U+16B54","U+16B55",
  "U+16B56","U+16B57","U+16B58","U+16B59","U+16D70","U+16D71","U+16D72",
  "U+16D73","U+16D74","U+16D75","U+16D76","U+16D77","U+16D78","U+16D79",
  "U+1CCF0","U+1CCF1","U+1CCF2","U+1CCF3","U+1CCF4","U+1CCF5","U+1CCF6",
  "U+1CCF7","U+1CCF8","U+1CCF9","U+1D7CE","U+1D7CF","U+1D7D0","U+1D7D1",
  "U+1D7D2","U+1D7D3","U+1D7D4","U+1D7D5","U+1D7D6","U+1D7D7","U+1D7D8",
  "U+1D7D9","U+1D7DA","U+1D7DB","U+1D7DC","U+1D7DD","U+1D7DE","U+1D7DF",
  "U+1D7E0","U+1D7E1","U+1D7E2","U+1D7E3","U+1D7E4","U+1D7E5","U+1D7E6",
  "U+1D7E7","U+1D7E8","U+1D7E9","U+1D7EA","U+1D7EB","U+1D7EC","U+1D7ED",
  "U+1D7EE","U+1D7EF","U+1D7F0","U+1D7F1","U+1D7F2","U+1D7F3","U+1D7F4",
  "U+1D7F5","U+1D7F6","U+1D7F7","U+1D7F8","U+1D7F9","U+1D7FA","U+1D7FB",
  "U+1D7FC","U+1D7FD","U+1D7FE","U+1D7FF","U+1E140","U+1E141","U+1E142",
  "U+1E143","U+1E144","U+1E145","U+1E146","U+1E147","U+1E148","U+1E149",
  "U+1E2F0","U+1E2F1","U+1E2F2","U+1E2F3","U+1E2F4","U+1E2F5","U+1E2F6",
  "U+1E2F7","U+1E2F8","U+1E2F9","U+1E4F0","U+1E4F1","U+1E4F2","U+1E4F3",
  "U+1E4F4","U+1E4F5","U+1E4F6","U+1E4F7","U+1E4F8","U+1E4F9","U+1E5F1",
  "U+1E5F2","U+1E5F3","U+1E5F4","U+1E5F5","U+1E5F6","U+1E5F7","U+1E5F8",
  "U+1E5F9","U+1E5FA","U+1E950","U+1E951","U+1E952","U+1E953","U+1E954",
  "U+1E955","U+1E956","U+1E957","U+1E958","U+1E959","U+1FBF0","U+1FBF1",
  "U+1FBF2","U+1FBF3","U+1FBF4","U+1FBF5","U+1FBF6","U+1FBF7","U+1FBF8",
  "U+1FBF9"}

\* char::is_whitespace (the property White_Space), also \s of the regex crate
White == {
  "\t","\n","U+000B","\f","\r"," ","U+0085","U+00A0","U+1680","U+2000",
  "U+2001","U+2002","U+2003","U+2004","U+2005","U+2006","U+2007","U+2008",
  "U+2009","U+200A","U+2028","U+2029","U+202F","U+205F","U+3000"}

\* the properties Cased and Case_Ignorable, which str::to_lowercase consults
\* around a capital sigma
Cased == {
  "A","B","C","D","E","F","G","H","I","J","K","L","M","N","O","P","Q","R","S",
  "T","U","V","W","X","Y","Z","a","b","c","d","e","f","g","h","i","j","k","l",
  "m","n","o","p","q","r","s","t","u","v","w","x","y","z","U+00AA","U+00B5",
  "U+00BA","U+00C0","U+00C1","U+00C2","U+00C3","U+00C4","U+00C5","U+00C6",
  "U+00C7","U+00C8","U+00C9","U+00CA","U+00CB","U+00CC","U+00CD","U+00CE",
  "U+00CF","U+00D0","U+00D1","U+00D2","U+00D3","U+00D4","U+00D5","U+00D6",
  "U+00D8","U+00D9","U+00DA","U+00DB","U+00DC","U+00DD","U+00DE","U+00DF",
  "U+00E0","U+00E1","U+00E2","U+00E3","U+00E4","U+00E5","U+00E6","U+00E7",
  "U+00E8","U+00E9","U+00EA","U+00EB","U+00EC","U+00ED","U+00EE","U+00EF",
  "U+00F0","U+00F1","U+00F2","U+00F3","U+00F4","U+00F5","U+00F6","U+00F8",
  "U+00F9","U+00FA","U+00FB","U+00FC","U+00FD","U+00FE","U+00FF","U+0100",
  "U+0101","U+0102","U+0103","U+0104","U+0105","U+0106","U+0107","U+0108",
  "U+0109","U+010A","U+010B","U+010C","U+010D","U+010E","U+010F","U+0110",
  "U+0111","U+0112","U+0113","U+0114","U+0115","U+0116","U+0117","U+0118",
  "U+0119","U+011A","U+011B","U+011C","U+011D","U+011E","U+011F","U+0120",
  "U+0121","U+0122","U+0123","U+0124","U+0125","U+0126","U+0127","U+0128",
  "U+0129","U+012A","U+012B","U+012C","U+012D","U+012E","U+012F","U+0130",
  "U+0131","U+0132","U+0133","U+0134","U+0135","U+0136","U+0137","U+0138",
  "U+0139","U+013A","U+013B","U+013C","U+013D","U+013E","U+013F","U+0140",
  "U+0141","U+0142","U+0143","U+0144","U+0145","U+0146","U+0147","U+0148",
  "U+0149","U+014A","U+014B","U+014C","U+014D","U+014E","U+014F","U+0150",
  "U+0151","U+0152","U+0153","U+0154","U+0155","U+0156","U+0157","U+0158",
  "U+0159","U+015A","U+015B","U+015C","U+015D","U+015E","U+015F","U+0160",
  "U+0161","U+0162","U+0163","U+0164","U+0165","U+0166","U+0167","U+0168",
  "U+0169","U+016A","U+016B","U+016C","U+016D","U+016E","U+016F","U+0170",
  "U+0171","U+0172","U+0173","U+0174","U+0175","U+0176","U+0177","U+0178",
  "U+0179","U+017A","U+017B","U+017C","U+017D","U+017E","U+017F","U+0180",
  "U+0181","U+0182","U+0183","U+0184","U+0185","U+0186","U+0187","U+0188",
  "U+0189","U+018A","U+018B","U+018C","U+018D","U+018E","U+018F","U+0190",
  "U+0191","U+0192","U+0193","U+0194","U+0195","U+0196","U+0197","U+0198",
  "U+0199","U+019A","U+019B","U+019C","U+019D","U+019E","U+019F","U+01A0",
  "U+01A1","U+01A2","U+01A3","U+01A4","U+01A5","U+01A6","U+01A7","U+01A8",
  "U+01A9","U+01AA","U+01AB","U+01AC","U+01AD","U+01AE","U+01AF","U+01B0",
  "U+01B1","U+01B2","U+01B3","U+01B4","U+01B5","U+01B6","U+01B7","U+01B8",
  "U+01B9","U+01BA","U+01BC","U+01BD","U+01BE","U+01BF","U+01C4","U+01C5",
  "U+01C6","U+01C7","U+01C8","U+01C9","U+01CA","U+01CB","U+01CC","U+01CD",
  "U+01CE","U+01CF","U+01D0","U+01D1","U+01D2","U+01D3","U+01D4","U+01D5",
  "U+01D6","U+01D7","U+01D8","U+01D9","U+01DA","U+01DB","U+01DC","U+01DD",
  "U+01DE","U+01DF","U+01E0","U+01E1","U+01E2","U+01E3","U+01E4","U+01E5",
  "U+01E6","U+01E7","U+01E8","U+01E9","U+01EA","U+01EB","U+01EC","U+01ED",
  "U+01EE","U+01EF","U+01F0","U+01F1","U+01F2","U+01F3","U+01F4","U+01F5",
  "U+01F6","U+01F7","U+01F8","U+01F9","U+01FA","U+01FB","U+01FC","U+01FD",
  "U+01FE","U+01FF","U+0200","U+0201","U+0202","U+0203","U+0204","U+0205",
  "U+0206","U+0207","U+0208","U+0209","U+020A","U+020B","U+020C","U+020D",
  "U+020E","U+020F","U+0210","U+0211","U+0212","U+0213","U+0214","U+0215",
  "U+0216","U+0217","U+0218","U+0219","U+021A","U+021B","U+021C","U+021D",
  "U+021E","U+021F","U+0220","U+0221","U+0222","U+0223","U+0224","U+0225",
  "U+0226","U+0227","U+0228","U+0229","U+022A","U+022B","U+022C","U+022D",
  "U+022E","U+022F","U+0230","U+0231","U+0232","U+0233","U+0234","U+0235",
  "U+0236","U+0237","U+0238","U+0239","U+023A","U+023B","U+023C","U+023D",
  "U+023E","U+023F","U+0240","U+0241","U+0242","U+0243","U+0244","U+0245",
  "U+0246","U+0247","U+0248","U+0249","U+024A","U+024B","U+024C","U+024D",
  "U+024E","U+024F","U+0250","U+0251","U+0252","U+0253","U+0254","U+0255",
  "U+0256","U+0257","U+0258","U+0259","U+025A","U+025B","U+025C","U+025D",
  "U+025E","U+025F","U+0260","U+0261","U+0262","U+0263","U+0264","U+0265",
  "U+0266","U+0267","U+0268","U+0269","U+026A","U+026B","U+026C","U+026D",
  "U+026E","U+026F","U+0270","U+0271","U+0272","U+0273","U+0274","U+0275",
  "U+0276","U+0277","U+0278","U+0279","U+027A","U+027B","U+027C","U+027D",
  "U+027E","U+027F","U+0280","U+0281","U+0282","U+0283","U+0284","U+0285",
  "U+0286","U+0287","U+0288","U+0289","U+028A","U+028B","U+028C","U+028D",
  "U+028E","U+028F","U+0290","U+0291","U+0292","U+0293","U+0296","U+0297",
  "U+0298","U+0299","U+029A","U+029B","U+029C","U+029D","U+029E","U+029F",
  "U+02A0","U+02A1","U+02A2","U+02A3","U+02A4","U+02A5","U+02A6","U+02A7",
  "U+02A8","U+02A9","U+02AA","U+02AB","U+02AC","U+02AD","U+02AE","U+02AF",
  "U+02B0","U+02B1","U+02B2","U+02B3","U+02B4","U+02B5","U+02B6","U+02B7",
  "U+02B8","U+02C0","U+02C1","U+02E0","U+02E1","U+02E2","U+02E3","U+02E4",
  "U+0345","U+0370","U+0371","U+0372","U+0373","U+0376","U+0377","U+037A",
  "U+037B","U+037C","U+037D","U+037F","U+0386","U+0388","U+0389","U+038A",
  "U+038C","U+038E","U+038F","U+0390","U+0391","U+0392","U+0393","U+0394",
  "U+0395","U+0396","U+0397","U+0398","U+0399","U+039A","U+039B","U+039C",
  "U+039D","U+039E","U+039F","U+03A0","U+03A1","U+03A3","U+03A4","U+03A5",
  "U+03A6","U+03A7","U+03A8","U+03A9","U+03AA","U+03AB","U+03AC","U+03AD",
  "U+03AE","U+03AF","U+03B0","U+03B1","U+03B2","U+03B3","U+03B4","U+03B5",
  "U+03B6","U+03B7","U+03B8","U+03B9","U+03BA","U+03BB","U+03BC","U+03BD",
  "U+03BE","U+03BF","U+03C0","U+03C1","U+03C2","U+03C3","U+03C4","U+03C5",
  "U+03C6","U+03C7","U+03C8","U+03C9","U+03CA","U+03CB","U+03CC","U+03CD",
  "U+03CE","U+03CF","U+03D0","U+03D1","U+03D2","U+03D3","U+03D4","U+03D5",
  "U+03D6","U+03D7","U+03D8","U+03D9","U+03DA","U+03DB","U+03DC","U+03DD",
  "U+03DE","U+03DF","U+03E0","U+03E1","U+03E2","U+03E3","U+03E4","U+03E5",
  "U+03E6","U+03E7","U+03E8","U+03E9","U+03EA","U+03EB","U+03EC","U+03ED",
  "U+03EE","U+03EF","U+03F0","U+03F1","U+03F2","U+03F3","U+03F4","U+03F5",
  "U+03F7","U+03F8","U+03F9","U+03FA","U+03FB","U+03FC","U+03FD","U+03FE",
  "U+03FF","U+0400","U+0401","U+0402","U+0403","U+0404","U+0405","U+0406",
  "U+0407","U+0408","U+0409","U+040A","U+040B","U+040C","U+040D","U+040E",
  "U+040F","U+0410","U+0411","U+0412","U+0413","U+0414","U+0415","U+0416",
  "U+0417","U+0418","U+0419","U+041A","U+041B","U+041C","U+041D","U+041E",
  "U+041F","U+0420","U+0421","U+0422","U+0423","U+0424","U+0425","U+0426",
  "U+0427","U+0428","U+0429","U+042A","U+042B","U+042C","U+042D","U+042E",
  "U+042F","U+0430","U+0431","U+0432","U+0433","U+0434","U+0435","U+0436",
  "U+0437","U+0438","U+0439","U+043A","U+043B","U+043C","U+043D","U+043E",
  "U+043F","U+0440","U+0441","U+0442","U+0443","U+0444","U+0445","U+0446",
  "U+0447","U+0448","U+0449","U+044A","U+044B","U+044C","U+044D","U+044E",
  "U+044F","U+0450","U+0451","U+0452","U+0453","U+0454","U+0455","U+0456",
  "U+0457","U+0458","U+0459","U+045A","U+045B","U+045C","U+045D","U+045E",
  "U+045F","U+0460","U+0461","U+0462","U+0463","U+0464","U+0465","U+0466",
  "U+0467","U+0468","U+0469","U+046A","U+046B","U+046C","U+046D","U+046E",
  "U+046F","U+0470","U+0471","U+0472","U+0473","U+0474","U+0475","U+0476",
  "U+0477","U+0478","U+0479","U+047A","U+047B","U+047C","U+047D","U+047E",
  "U+047F","U+0480","U+0481","U+048A","U+048B","U+048C","U+048D","U+048E",
  "U+048F","U+0490","U+0491","U+0492","U+0493","U+0494","U+0495","U+0496",
  "U+0497","U+0498","U+0499","U+049A","U+049B","U+049C","U+049D","U+049E",
  "U+049F","U+04A0","U+04A1","U+04A2","U+04A3","U+04A4","U+04A5","U+04A6",
  "U+04A7","U+04A8","U+04A9","U+04AA","U+04AB","U+04AC","U+04AD","U+04AE",
  "U+04AF","U+04B0","U+04B1","U+04B2","U+04B3","U+04B4","U+04B5","U+04B6",
  "U+04B7","U+04B8","U+04B9","U+04BA","U+04BB","U+04BC","U+04BD","U+04BE",
  "U+04BF","U+04C0","U+04C1","U+04C2","U+04C3","U+04C4","U+04C5","U+04C6",
  "U+04C7","U+04C8","U+04C9","U+04CA","U+04CB","U+04CC","U+04CD","U+04CE",
  "U+04CF","U+04D0","U+04D1","U+04D2","U+04D3","U+04D4","U+04D5","U+04D6",
  "U+04D7","U+04D8","U+04D9","U+04DA","U+04DB","U+04DC","U+04DD","U+04DE",
  "U+04DF","U+04E0","U+04E1","U+04E2","U+04E3","U+04E4","U+04E5","U+04E6",
  "U+04E7","U+04E8","U+04E9","U+04EA","U+04EB","U+04EC","U+04ED","U+04EE",
  "U+04EF","U+04F0","U+04F1","U+04F2","U+04F3","U+04F4","U+04F5","U+04F6",
  "U+04F7","U+04F8","U+04F9","U+04FA","U+04FB","U+04FC","U+04FD","U+04FE",
  "U+04FF","U+0500","U+0501","U+0502","U+0503","U+0504","U+0505","U+0506",
  "U+0507","U+0508","U+0509","U+050A","U+050B","U+050C","U+050D","U+050E",
  "U+050F","U+0510","U+0511","U+0512","U+0513","U+0514","U+0515","U+0516",
  "U+0517","U+0518","U+0519","U+051A","U+051B","U+051C","U+051D","U+051E",
  "U+051F","U+0520","U+0521","U+0522","U+0523","U+0524","U+0525","U+0526",
  "U+0527","U+0528","U+0529","U+052A","U+052B","U+052C","U+052D","U+052E",
  "U+052F","U+0531","U+0532","U+0533","U+0534","U+0535","U+0536","U+0537",
  "U+0538","U+0539","U+053A","U+053B","U+053C","U+053D","U+053E","U+053F",
  "U+0540","U+0541","U+0542","U+0543","U+0544","U+0545","U+0546","U+0547",
  "U+0548","U+0549","U+054A","U+054B","U+054C","U+054D","U+054E","U+054F",
  "U+0550","U+0551","U+0552","U+0553","U+0554","U+0555","U+0556","U+0560",
  "U+0561","U+0562","U+0563","U+0564","U+0565","U+0566","U+0567","U+0568",
  "U+0569","U+056A","U+056B","U+056C","U+056D","U+056E","U+056F","U+0570",
  "U+0571","U+0572","U+0573","U+0574","U+0575","U+0576","U+0577","U+0578",
  "U+0579","U+057A","U+057B","U+057C","U+057D","U+057E","U+057F","U+0580",
  "U+0581","U+0582","U+0583","U+0584","U+0585","U+0586","U+0587","U+0588",
  "U+10A0","U+10A1","U+10A2","U+10A3","U+10A4","U+10A5","U+10A6","U+10A7",
  "U+10A8","U+10A9","U+10AA","U+10AB","U+10AC","U+10AD","U+10AE","U+10AF",
  "U+10B0","U+10B1","U+10B2","U+10B3","U+10B4","U+10B5","U+10B6","U+10B7",
  "U+10B8","U+10B9","U+10BA","U+10BB","U+10BC","U+10BD","U+10BE","U+10BF",
  "U+10C0","U+10C1","U+10C2","U+10C3","U+10C4","U+10C5","U+10C7","U+10CD",
  "U+10D0","U+10D1","U+10D2","U+10D3","U+10D4","U+10D5","U+10D6","U+10D7",
  "U+10D8","U+10D9","U+10DA","U+10DB","U+10DC","U+10DD","U+10DE","U+10DF",
  "U+10E0","U+10E1","U+10E2","U+10E3","U+10E4","U+10E5","U+10E6","U+10E7",
  "U+10E8","U+10E9","U+10EA","U+10EB","U+10EC","U+10ED","U+10EE","U+10EF",
  "U+10F0","U+10F1","U+10F2","U+10F3","U+10F4","U+10F5","U+10F6","U+10F7",
  "U+10F8","U+10F9","U+10FA","U+10FC","U+10FD","U+10FE","U+10FF","U+13A0",
  "U+13A1","U+13A2","U+13A3","U+13A4","U+13A5","U+13A6","U+13A7","U+13A8",
  "U+13A9","U+13AA","U+13AB","U+13AC","U+13AD","U+13AE","U+13AF","U+13B0",
  "U+13B1","U+13B2","U+13B3","U+13B4","U+13B5","U+13B6","U+13B7","U+13B8",
  "U+13B9","U+13BA","U+13BB","U+13BC","U+13BD","U+13BE","U+13BF","U+13C0",
  "U+13C1","U+13C2","U+13C3","U+13C4","U+13C5","U+13C6","U+13C7","U+13C8",
  "U+13C9","U+13CA","U+13CB","U+13CC","U+13CD","U+13CE","U+13CF","U+13D0",
  "U+13D1","U+13D2","U+13D3","U+13D4","U+13D5","U+13D6","U+13D7","U+13D8",
  "U+13D9","U+13DA","U+13DB","U+13DC","U+13DD","U+13DE","U+13DF","U+13E0",
  "U+13E1","U+13E2","U+13E3","U+13E4","U+13E5","U+13E6","U+13E7","U+13E8",
  "U+13E9","U+13EA","U+13EB","U+13EC","U+13ED","U+13EE","U+13EF","U+13F0",
  "U+13F1","U+13F2","U+13F3","U+13F4","U+13F5","U+13F8","U+13F9","U+13FA",
  "U+13FB","U+13FC","U+13FD","U+1C80","U+1C81","U+1C82","U+1C83","U+1C84",
  "U+1C85","U+1C86","U+1C87","U+1C88","U+1C89","U+1C8A","U+1C90","U+1C91",
  "U+1C92","U+1C93","U+1C94","U+1C95","U+1C96","U+1C97","U+1C98","U+1C99",
  "U+1C9A","U+1C9B","U+1C9C","U+1C9D","U+1C9E","U+1C9F","U+1CA0","U+1CA1",
  "U+1CA2","U+1CA3","U+1CA4","U+1CA5","U+1CA6","U+1CA7","U+1CA8","U+1CA9",
  "U+1CAA","U+1CAB","U+1CAC","U+1CAD","U+1CAE","U+1CAF","U+1CB0","U+1CB1",
  "U+1CB2","U+1CB3","U+1CB4","U+1CB5","U+1CB6","U+1CB7","U+1CB8","U+1CB9",
  "U+1CBA","U+1CBD","U+1CBE","U+1CBF","U+1D00","U+1D01","U+1D02","U+1D03",
  "U+1D04","U+1D05","U+1D06","U+1D07","U+1D08","U+1D09","U+1D0A","U+1D0B",
  "U+1D0C","U+1D0D","U+1D0E","U+1D0F","U+1D10","U+1D11","U+1D12","U+1D13",
  "U+1D14","U+1D15","U+1D16","U+1D17","U+1D18","U+1D19","U+1D1A","U+1D1B",
  "U+1D1C","U+1D1D","U+1D1E","U+1D1F","U+1D20","U+1D21","U+1D22","U+1D23",
  "U+1D24","U+1D25","U+1D26","U+1D27","U+1D28","U+1D29","U+1D2A","U+1D2B",
  "U+1D2C","U+1D2D","U+1D2E","U+1D2F","U+1D30","U+1D31","U+1D32","U+1D33",
  "U+1D34","U+1D35","U+1D36","U+1D37","U+1D38","U+1D39","U+1D3A","U+1D3B",
  "U+1D3C","U+1D3D","U+1D3E","U+1D3F","U+1D40","U+1D41","U+1D42","U+1D43",
  "U+1D44","U+1D45","U+1D46","U+1D47","U+1D48","U+1D49","U+1D4A","U+1D4B",
  "U+1D4C","U+1D4D","U+1D4E","U+1D4F","U+1D50","U+1D51","U+1D52","U+1D53",
  "U+1D54","U+1D55","U+1D56","U+1D57","U+1D58","U+1D59","U+1D5A","U+1D5B",
  "U+1D5C","U+1D5D","U+1D5E","U+1D5F","U+1D60","U+1D61","U+1D62","U+1D63",
  "U+1D64","U+1D65","U+1D66","U+1D67","U+1D68","U+1D69","U+1D6A","U+1D6B",
  "U+1D6C","U+1D6D","U+1D6E","U+1D6F","U+1D70","U+1D71","U+1D72","U+1D73",
  "U+1D74","U+1D75","U+1D76","U+1D77","U+1D78","U+1D79","U+1D7A","U+1D7B",
  "U+1D7C","U+1D7D","U+1D7E","U+1D7F","U+1D80","U+1D81","U+1D82","U+1D83",
  "U+1D84","U+1D85","U+1D86","U+1D87","U+1D88","U+1D89","U+1D8A","U+1D8B",
  "U+1D8C","U+1D8D","U+1D8E","U+1D8F","U+1D90","U+1D91","U+1D92","U+1D93",
  "U+1D94","U+1D95","U+1D96","U+1D97","U+1D98","U+1D99","U+1D9A","U+1D9B",
  "U+1D9C","U+1D9D","U+1D9E","U+1D9F","U+1DA0","U+1DA1","U+1DA2","U+1DA3",
  "U+1DA4","U+1DA5","U+1DA6","U+1DA7","U+1DA8","U+1DA9","U+1DAA","U+1DAB",
  "U+1DAC","U+1DAD","U+1DAE","U+1DAF","U+1DB0","U+1DB1","U+1DB2","U+1DB3",
  "U+1DB4","U+1DB5","U+1DB6","U+1DB7","U+1DB8","U+1DB9","U+1DBA","U+1DBB",
  "U+1DBC","U+1DBD","U+1DBE","U+1DBF","U+1E00","U+1E01","U+1E02","U+1E03",
  "U+1E04","U+1E05","U+1E06","U+1E07","U+1E08","U+1E09","U+1E0A","U+1E0B",
  "U+1E0C","U+1E0D","U+1E0E","U+1E0F","U+1E10","U+1E11","U+1E12","U+1E13",
  "U+1E14","U+1E15","U+1E16","U+1E17","U+1E18","U+1E19","U+1E1A","U+1E1B",
  "U+1E1C","U+1E1D","U+1E1E","U+1E1F","U+1E20","U+1E21","U+1E22","U+1E23",
  "U+1E24","U+1E25","U+1E26","U+1E27","U+1E28","U+1E29","U+1E2A","U+1E2B",
  "U+1E2C","U+1E2D","U+1E2E","U+1E2F","U+1E30","U+1E31","U+1E32","U+1E33",
  "U+1E34","U+1E35","U+1E36","U+1E37","U+1E38","U+1E39","U+1E3A","U+1E3B",
  "U+1E3C","U+1E3D","U+1E3E","U+1E3F","U+1E40","U+1E41","U+1E42","U+1E43",
  "U+1E44","U+1E45","U+1E46","U+1E47","U+1E48","U+1E49","U+1E4A","U+1E4B",
  "U+1E4C","U+1E4D","U+1E4E","U+1E4F","U+1E50","U+1E51","U+1E52","U+1E53",
  "U+1E54","U+1E55","U+1E56","U+1E57","U+1E58","U+1E59","U+1E5A","U+1E5B",
  "U+1E5C","U+1E5D","U+1E5E","U+1E5F","U+1E60","U+1E61","U+1E62","U+1E63",
  "U+1E64","U+1E65","U+1E66","U+1E67","U+1E68","U+1E69","U+1E6A","U+1E6B",
  "U+1E6C","U+1E6D","U+1E6E","U+1E6F","U+1E70","U+1E71","U+1E72","U+1E73",
  "U+1E74","U+1E75","U+1E76","U+1E77","U+1E78","U+1E79","U+1E7A","U+1E7B",
  "U+1E7C","U+1E7D","U+1E7E","U+1E7F","U+1E80","U+1E81","U+1E82","U+1E83",
  "U+1E84","U+1E85","U+1E86","U+1E87","U+1E88","U+1E89","U+1E8A","U+1E8B",
  "U+1E8C","U+1E8D","U+1E8E","U+1E8F","U+1E90","U+1E91","U+1E92","U+1E93",
  "U+1E94","U+1E95","U+1E96","U+1E97","U+1E98","U+1E99","U+1E9A","U+1E9B",
  "U+1E9C","U+1E9D","U+1E9E","U+1E9F","U+1EA0","U+1EA1","U+1EA2","U+1EA3",
  "U+1EA4","U+1EA5","U+1EA6","U+1EA7","U+1EA8","U+1EA9","U+1EAA","U+1EAB",
  "U+1EAC","U+1EAD","U+1EAE","U+1EAF","U+1EB0","U+1EB1","U+1EB2","U+1EB3",
  "U+1EB4","U+1EB5","U+1EB6","U+1EB7","U+1EB8","U+1EB9","U+1EBA","U+1EBB",
  "U+1EBC","U+1EBD","U+1EBE","U+1EBF","U+1EC0","U+1EC1","U+1EC2","U+1EC3",
  "U+1EC4","U+1EC5","U+1EC6","U+1EC7","U+1EC8","U+1EC9","U+1ECA","U+1ECB",
  "U+1ECC","U+1ECD","U+1ECE","U+1ECF","U+1ED0","U+1ED1","U+1ED2","U+1ED3",
  "U+1ED4","U+1ED5","U+1ED6","U+1ED7","U+1ED8","U+1ED9","U+1EDA","U+1EDB",
  "U+1EDC","U+1EDD","U+1EDE","U+1EDF","U+1EE0","U+1EE1","U+1EE2","U+1EE3",
  "U+1EE4","U+1EE5","U+1EE6","U+1EE7","U+1EE8","U+1EE9","U+1EEA","U+1EEB",
  "U+1EEC","U+1EED","U+1EEE","U+1EEF","U+1EF0","U+1EF1","U+1EF2","U+1EF3",
  "U+1EF4","U+1EF5","U+1EF6","U+1EF7","U+1EF8","U+1EF9","U+1EFA","U+1EFB",
  "U+1EFC","U+1EFD","U+1EFE","U+1EFF","U+1F00","U+1F01","U+1F02","U+1F03",
  "U+1F04","U+1F05","U+1F06","U+1F07","U+1F08","U+1F09","U+1F0A","U+1F0B",
  "U+1F0C","U+1F0D","U+1F0E","U+1F0F","U+1F10","U+1F11","U+1F12","U+1F13",
  "U+1F14","U+1F15","U+1F18","U+1F19","U+1F1A","U+1F1B","U+1F1C","U+1F1D",
  "U+1F20","U+1F21","U+1F22","U+1F23","U+1F24","U+1F25","U+1F26","U+1F27",
  "U+1F28","U+1F29","U+1F2A","U+1F2B","U+1F2C","U+1F2D","U+1F2E","U+1F2F",
  "U+1F30","U+1F31","U+1F32","U+1F33","U+1F34","U+1F35","U+1F36","U+1F37",
  "U+1F38","U+1F39","U+1F3A","U+1F3B","U+1F3C","U+1F3D","U+1F3E","U+1F3F",
  "U+1F40","U+1F41","U+1F42","U+1F43","U+1F44","U+1F45","U+1F48","U+1F49",
  "U+1F4A","U+1F4B","U+1F4C","U+1F4D","U+1F50","U+1F51","U+1F52","U+1F53",
  "U+1F54","U+1F55","U+1F56","U+1F57","U+1F59","U+1F5B","U+1F5D","U+1F5F",
  "U+1F60","U+1F61","U+1F62","U+1F63","U+1F64","U+1F65","U+1F66","U+1F67",
  "U+1F68","U+1F69","U+1F6A","U+1F6B","U+1F6C","U+1F6D","U+1F6E","U+1F6F",
  "U+1F70","U+1F71","U+1F72","U+1F73","U+1F74","U+1F75","U+1F76","U+1F77",
  "U+1F78","U+1F79","U+1F7A","U+1F7B","U+1F7C","U+1F7D","U+1F80","U+1F81",
  "U+1F82","U+1F83","U+1F84","U+1F85","U+1F86","U+1F87","U+1F88","U+1F89",
  "U+1F8A","U+1F8B","U+1F8C","U+1F8D","U+1F8E","U+1F8F","U+1F90","U+1F91",
  "U+1F92","U+1F93","U+1F94","U+1F95","U+1F96","U+1F97","U+1F98","U+1F99",
  "U+1F9A","U+1F9B","U+1F9C","U+1F9D","U+1F9E","U+1F9F","U+1FA0","U+1FA1",
  "U+1FA2","U+1FA3","U+1FA4","U+1FA5","U+1FA6","U+1FA7","U+1FA8","U+1FA9",
  "U+1FAA","U+1FAB","U+1FAC","U+1FAD","U+1FAE","U+1FAF","U+1FB0","U+1FB1",
  "U+1FB2","U+1FB3","U+1FB4","U+1FB6","U+1FB7","U+1FB8","U+1FB9","U+1FBA",
  "U+1FBB","U+1FBC","U+1FBE","U+1FC2","U+1FC3","U+1FC4","U+1FC6","U+1FC7",
  "U+1FC8","U+1FC9","U+1FCA","U+1FCB","U+1FCC","U+1FD0","U+1FD1","U+1FD2",
  "U+1FD3","U+1FD6","U+1FD7","U+1FD8","U+1FD9","U+1FDA","U+1FDB","U+1FE0",
  "U+1FE1","U+1FE2","U+1FE3","U+1FE4","U+1FE5","U+1FE6","U+1FE7","U+1FE8",
  "U+1FE9","U+1FEA","U+1FEB","U+1FEC","U+1FF2","U+1FF3","U+1FF4","U+1FF6",
  "U+1FF7","U+1FF8","U+1FF9","U+1FFA","U+1FFB","U+1FFC","U+2071","U+207F",
  "U+2090","U+2091","U+2092","U+2093","U+2094","U+2095","U+2096","U+2097",
  "U+2098","U+2099","U+209A","U+209B","U+209C","U+2102","U+2107","U+210A",
  "U+210B","U+210C","U+210D","U+210E","U+210F","U+2110","U+2111","U+2112",
  "U+2113","U+2115","U+2119","U+211A","U+211B","U+211C","U+211D","U+2124",
  "U+2126","U+2128","U+212A","U+212B","U+212C","U+212D","U+212F","U+2130",
  "U+2131","U+2132","U+2133","U+2134","U+2139","U+213C","U+213D","U+213E",
  "U+213F","U+2145","U+2146","U+2147","U+2148","U+2149","U+214E","U+2160",
  "U+2161","U+2162","U+2163","U+2164","U+2165","U+2166","U+2167","U+2168",
  "U+2169","U+216A","U+216B","U+216C","U+216D","U+216E","U+216F","U+2170",
  "U+2171","U+2172","U+2173","U+2174","U+2175","U+2176","U+2177","U+2178",
  "U+2179","U+217A","U+217B","U+217C","U+217D","U+217E","U+217F","U+2183",
  "U+2184","U+24B6","U+24B7","U+24B8","U+24B9","U+24BA","U+24BB","U+24BC",
  "U+24BD","U+24BE","U+24BF","U+24C0","U+24C1","U+24C2","U+24C3","U+24C4",
  "U+24C5","U+24C6","U+24C7","U+24C8","U+24C9","U+24CA","U+24CB","U+24CC",
  "U+24CD","U+24CE","U+24CF","U+24D0","U+24D1","U+24D2","U+24D3","U+24D4",
  "U+24D5","U+24D6","U+24D7","U+24D8","U+24D9","U+24DA","U+24DB","U+24DC",
  "U+24DD","U+24DE","U+24DF","U+24E0","U+24E1","U+24E2","U+24E3","U+24E4",
  "U+24E5","U+24E6","U+24E7","U+24E8","U+24E9","U+2C00","U+2C01","U+2C02",
  "U+2C03","U+2C04","U+2C05","U+2C06","U+2C07","U+2C08","U+2C09","U+2C0A",
  "U+2C0B","U+2C0C","U+2C0D","U+2C0E","U+2C0F","U+2C10","U+2C11","U+2C12",
  "U+2C13","U+2C14","U+2C15","U+2C16","U+2C17","U+2C18","U+2C19","U+2C1A",
  "U+2C1B","U+2C1C","U+2C1D","U+2C1E","U+2C1F","U+2C20","U+2C21","U+2C22",
  "U+2C23","U+2C24","U+2C25","U+2C26","U+2C27","U+2C28","U+2C29","U+2C2A",
  "U+2C2B","U+2C2C","U+2C2D","U+2C2E","U+2C2F","U+2C30","U+2C31","U+2C32",
  "U+2C33","U+2C34","U+2C35","U+2C36","U+2C37","U+2C38","U+2C39","U+2C3A",
  "U+2C3B","U+2C3C","U+2C3D","U+2C3E","U+2C3F","U+2C40","U+2C41","U+2C42",
  "U+2C43","U+2C44","U+2C45","U+2C46","U+2C47","U+2C48","U+2C49","U+2C4A",
  "U+2C4B","U+2C4C","U+2C4D","U+2C4E","U+2C4F","U+2C50","U+2C51","U+2C52",
  "U+2C53","U+2C54","U+2C55","U+2C56","U+2C57","U+2C58","U+2C59","U+2C5A",
  "U+2C5B","U+2C5C","U+2C5D","U+2C5E","U+2C5F","U+2C60","U+2C61","U+2C62",
  "U+2C63","U+2C64","U+2C65","U+2C66","U+2C67","U+2C68","U+2C69","U+2C6A",
  "U+2C6B","U+2C6C","U+2C6D","U+2C6E","U+2C6F","U+2C70","U+2C71","U+2C72",
  "U+2C73","U+2C74","U+2C75","U+2C76","U+2C77","U+2C78","U+2C79","U+2C7A",
  "U+2C7B","U+2C7C","U+2C7D","U+2C7E","U+2C7F","U+2C80","U+2C81","U+2C82",
  "U+2C83","U+2C84","U+2C85","U+2C86","U+2C87","U+2C88","U+2C89","U+2C8A",
  "U+2C8B","U+2C8C","U+2C8D","U+2C8E","U+2C8F","U+2C90","U+2C91","U+2C92",
  "U+2C93","U+2C94","U+2C95","U+2C96","U+2C97","U+2C98","U+2C99","U+2C9A",
  "U+2C9B","U+2C9C","U+2C9D","U+2C9E","U+2C9F","U+2CA0","U+2CA1","U+2CA2",
  "U+2CA3","U+2CA4","U+2CA5","U+2CA6","U+2CA7","U+2CA8","U+2CA9","U+2CAA",
  "U+2CAB","U+2CAC","U+2CAD","U+2CAE","U+2CAF","U+2CB0","U+2CB1","U+2CB2",
  "U+2CB3","U+2CB4","U+2CB5","U+2CB6","U+2CB7","U+2CB8","U+2CB9","U+2CBA",
  "U+2CBB","U+2CBC","U+2CBD","U+2CBE","U+2CBF","U+2CC0","U+2CC1","U+2CC2",
  "U+2CC3","U+2CC4","U+2CC5","U+2CC6","U+2CC7","U+2CC8","U+2CC9","U+2CCA",
  "U+2CCB","U+2CCC","U+2CCD","U+2CCE","U+2CCF","U+2CD0","U+2CD1","U+2CD2",
  "U+2CD3","U+2CD4","U+2CD5","U+2CD6","U+2CD7","U+2CD8","U+2CD9","U+2CDA",
  "U+2CDB","U+2CDC","U+2CDD","U+2CDE","U+2CDF","U+2CE0","U+2CE1","U+2CE2",
  "U+2CE3","U+2CE4","U+2CEB","U+2CEC","U+2CED","U+2CEE","U+2CF2","U+2CF3",
  "U+2D00","U+2D01","U+2D02","U+2D03","U+2D04","U+2D05","U+2D06","U+2D07",
  "U+2D08","U+2D09","U+2D0A","U+2D0B","U+2D0C","U+2D0D","U+2D0E","U+2D0F",
  "U+2D10","U+2D11","U+2D12","U+2D13","U+2D14","U+2D15","U+2D16","U+2D17",
  "U+2D18","U+2D19","U+2D1A","U+2D1B","U+2D1C","U+2D1D","U+2D1E","U+2D1F",
  "U+2D20","U+2D21","U+2D22","U+2D23","U+2D24","U+2D25","U+2D27","U+2D2D",
  "U+A640","U+A641","U+A642","U+A643","U+A644","U+A645","U+A646","U+A647",
  "U+A648","U+A649","U+A64A","U+A64B","U+A64C","U+A64D","U+A64E","U+A64F",
  "U+A650","U+A651","U+A652","U+A653","U+A654","U+A655","U+A656","U+A657",
  "U+A658","U+A659","U+A65A","U+A65B","U+A65C","U+A65D","U+A65E","U+A65F",
  "U+A660","U+A661","U+A662","U+A663","U+A664","U+A665","U+A666","U+A667",
  "U+A668","U+A669","U+A66A","U+A66B","U+A66C","U+A66D","U+A680","U+A681",
  "U+A682","U+A683","U+A684","U+A685","U+A686","U+A687","U+A688","U+A689",
  "U+A68A","U+A68B","U+A68C","U+A68D","U+A68E","U+A68F","U+A690","U+A691",
  "U+A692","U+A693","U+A694","U+A695","U+A696","U+A697","U+A698","U+A699",
  "U+A69A","U+A69B","U+A69C","U+A69D","U+A722","U+A723","U+A724","U+A725",
  "U+A726","U+A727","U+A728","U+A729","U+A72A","U+A72B","U+A72C","U+A72D",
  "U+A72E","U+A72F","U+A730","U+A731","U+A732","U+A733","U+A734","U+A735",
  "U+A736","U+A737","U+A738","U+A739","U+A73A","U+A73B","U+A73C","U+A73D",
  "U+A73E","U+A73F","U+A740","U+A741","U+A742","U+A743","U+A744","U+A745",
  "U+A746","U+A747","U+A748","U+A749","U+A74A","U+A74B","U+A74C","U+A74D",
  "U+A74E","U+A74F","U+A750","U+A751","U+A752","U+A753","U+A754","U+A755",
  "U+A756","U+A757","U+A758","U+A759","U+A75A","U+A75B","U+A75C","U+A75D",
  "U+A75E","U+A75F","U+A760","U+A761","U+A762","U+A763","U+A764","U+A765",
  "U+A766","U+A767","U+A768","U+A769","U+A76A","U+A76B","U+A76C","U+A76D",
  "U+A76E","U+A76F","U+A770","U+A771","U+A772","U+A773","U+A774","U+A775",
  "U+A776","U+A777","U+A778","U+A779","U+A77A","U+A77B","U+A77C","U+A77D",
  "U+A77E","U+A77F","U+A780","U+A781","U+A782","U+A783","U+A784","U+A785",
  "U+A786","U+A787","U+A78B","U+A78C","U+A78D","U+A78E","U+A790","U+A791",
  "U+A792","U+A793","U+A794","U+A795","U+A796","U+A797","U+A798","U+A799",
  "U+A79A","U+A79B","U+A79C","U+A79D","U+A79E","U+A79F","U+A7A0","U+A7A1",
  "U+A7A2","U+A7A3","U+A7A4","U+A7A5","U+A7A6","U+A7A7","U+A7A8","U+A7A9",
  "U+A7AA","U+A7AB","U+A7AC","U+A7AD","U+A7AE","U+A7AF","U+A7B0","U+A7B1",
  "U+A7B2","U+A7B3","U+A7B4","U+A7B5","U+A7B6","U+A7B7","U+A7B8","U+A7B9",
  "U+A7BA","U+A7BB","U+A7BC","U+A7BD","U+A7BE","U+A7BF","U+A7C0","U+A7C1",
  "U+A7C2","U+A7C3","U+A7C4","U+A7C5","U+A7C6","U+A7C7","U+A7C8","U+A7C9",
  "U+A7CA","U+A7CB","U+A7CC","U+A7CD","U+A7CE","U+A7CF","U+A7D0","U+A7D1",
  "U+A7D2","U+A7D3","U+A7D4","U+A7D5","U+A7D6","U+A7D7","U+A7D8","U+A7D9",
  "U+A7DA","U+A7DB","U+A7DC","U+A7F1","U+A7F2","U+A7F3","U+A7F4","U+A7F5",
  "U+A7F6","U+A7F8","U+A7F9","U+A7FA","U+AB30","U+AB31","U+AB32","U+AB33",
  "U+AB34","U+AB35","U+AB36","U+AB37","U+AB38","U+AB39","U+AB3A","U+AB3B",
  "U+AB3C","U+AB3D","U+AB3E","U+AB3F","U+AB40","U+AB41","U+AB42","U+AB43",
  "U+AB44","U+AB45","U+AB46","U+AB47","U+AB48","U+AB49","U+AB4A","U+AB4B",
  "U+AB4C","U+AB4D","U+AB4E","U+AB4F","U+AB50","U+AB51","U+AB52","U+AB53",
  "U+AB54","U+AB55","U+AB56","U+AB57","U+AB58","U+AB59","U+AB5A","U+AB5C",
  "U+AB5D","U+AB5E","U+AB5F","U+AB60","U+AB61","U+AB62","U+AB63","U+AB64",
  "U+AB65","U+AB66","U+AB67","U+AB68","U+AB69","U+AB70","U+AB71","U+AB72",
  "U+AB73","U+AB74","U+AB75","U+AB76","U+AB77","U+AB78","U+AB79","U+AB7A",
  "U+AB7B","U+AB7C","U+AB7D","U+AB7E","U+AB7F","U+AB80","U+AB81","U+AB82",
  "U+AB83","U+AB84","U+AB85","U+AB86","U+AB87","U+AB88","U+AB89","U+AB8A",
  "U+AB8B","U+AB8C","U+AB8D","U+AB8E","U+AB8F","U+AB90","U+AB91","U+AB92",
  "U+AB93","U+AB94","U+AB95","U+AB96","U+AB97","U+AB98","U+AB99","U+AB9A",
  "U+AB9B","U+AB9C","U+AB9D","U+AB9E","U+AB9F","U+ABA0","U+ABA1","U+ABA2",
  "U+ABA3","U+ABA4","U+ABA5","U+ABA6","U+ABA7","U+ABA8","U+ABA9","U+ABAA",
  "U+ABAB","U+ABAC","U+ABAD","U+ABAE","U+ABAF","U+ABB0","U+ABB1","U+ABB2",
  "U+ABB3","U+ABB4","U+ABB5","U+ABB6","U+ABB7","U+ABB8","U+ABB9","U+ABBA",
  "U+ABBB","U+ABBC","U+ABBD","U+ABBE","U+ABBF","U+FB00","U+FB01","U+FB02",
  "U+FB03","U+FB04","U+FB05","U+FB06","U+FB13","U+FB14","U+FB15","U+FB16",
  "U+FB17","U+FF21","U+FF22","U+FF23","U+FF24","U+FF25","U+FF26","U+FF27",
  "U+FF28","U+FF29","U+FF2A","U+FF2B","U+FF2C","U+FF2D","U+FF2E","U+FF2F",
  "U+FF30","U+FF31","U+FF32","U+FF33","U+FF34","U+FF35","U+FF36","U+FF37",
  "U+FF38","U+FF39","U+FF3A","U+FF41","U+FF42","U+FF43","U+FF44","U+FF45",
  "U+FF46","U+FF47","U+FF48","U+FF49","U+FF4A","U+FF4B","U+FF4C","U+FF4D",
  "U+FF4E","U+FF4F","U+FF50","U+FF51","U+FF52","U+FF53","U+FF54","U+FF55",
  "U+FF56","U+FF57","U+FF58","U+FF59","U+FF5A","U+10400","U+10401","U+10402",
  "U+10403","U+10404","U+10405","U+10406","U+10407","U+10408","U+10409",
  "U+1040A","U+1040B","U+1040C","U+1040D","U+1040E","U+1040F","U+10410",
  "U+10411","U+10412","U+10413","U+10414","U+10415","U+10416","U+10417",
  "U+10418","U+10419","U+1041A","U+1041B","U+1041C","U+1041D","U+1041E",
  "U+1041F","U+10420","U+10421","U+10422","U+10423","U+10424","U+10425",
  "U+10426","U+10427","U+10428","U+10429","U+1042A","U+1042B","U+1042C",
  "U+1042D","U+1042E","U+1042F","U+10430","U+10431","U+10432","U+10433",
  "U+10434","U+10435","U+10436","U+10437","U+10438","U+10439","U+1043A",
  "U+1043B","U+1043C","U+1043D","U+1043E","U+1043F","U+10440","U+10441",
  "U+10442","U+10443","U+10444","U+10445","U+10446","U+10447","U+10448",
  "U+10449","U+1044A","U+1044B","U+1044C","U+1044D","U+1044E","U+1044F",
  "U+104B0","U+104B1","U+104B2","U+104B3","U+104B4","U+104B5","U+104B6",
  "U+104B7","U+104B8","U+104B9","U+104BA","U+104BB","U+104BC","U+104BD",
  "U+104BE","U+104BF","U+104C0","U+104C1","U+104C2","U+104C3","U+104C4",
  "U+104C5","U+104C6","U+104C7","U+104C8","U+104C9","U+104CA","U+104CB",
  "U+104CC","U+104CD","U+104CE","U+104CF","U+104D0","U+104D1","U+104D2",
  "U+104D3","U+104D8","U+104D9","U+104DA","U+104DB","U+104DC","U+104DD",
  "U+104DE","U+104DF","U+104E0","U+104E1","U+104E2","U+104E3","U+104E4",
  "U+104E5","U+104E6","U+104E7","U+104E8","U+104E9","U+104EA","U+104EB",
  "U+104EC","U+104ED","U+104EE","U+104EF","U+104F0","U+104F1","U+104F2",
  "U+104F3","U+104F4","U+104F5","U+104F6","U+104F7","U+104F8","U+104F9",
  "U+104FA","U+104FB","U+10570","U+10571","U+10572","U+10573","U+10574",
  "U+10575","U+10576","U+10577","U+10578","U+10579","U+1057A","U+1057C",
  "U+1057D","U+1057E","U+1057F","U+10580","U+10581","U+10582","U+10583",
  "U+10584","U+10585","U+10586","U+10587","U+10588","U+10589","U+1058A",
  "U+1058C","U+1058D","U+1058E","U+1058F","U+10590","U+10591","U+10592",
  "U+10594","U+10595","U+10597","U+10598","U+10599","U+1059A","U+1059B",
  "U+1059C","U+1059D","U+1059E","U+1059F","U+105A0","U+105A1","U+105A3",
  "U+105A4","U+105A5","U+105A6","U+105A7","U+105A8","U+105A9","U+105AA",
  "U+105AB","U+105AC","U+105AD","U+105AE","U+105AF","U+105B0","U+105B1",
  "U+105B3","U+105B4","U+105B5","U+105B6","U+105B7","U+105B8","U+105B9",
  "U+105BB","U+105BC","U+10780","U+10783","U+10784","U+10785","U+10787",
  "U+10788","U+10789","U+1078A","U+1078B","U+1078C","U+1078D","U+1078E",
  "U+1078F","U+10790","U+10791","U+10792","U+10793","U+10794","U+10795",
  "U+10796","U+10797","U+10798","U+10799","U+1079A","U+1079B","U+1079C",
  "U+1079D","U+1079E","U+1079F","U+107A0","U+107A1","U+107A2","U+107A3",
  "U+107A4","U+107A5","U+107A6","U+107A7","U+107A8","U+107A9","U+107AA",
  "U+107AB","U+107AC","U+107AD","U+107AE","U+107AF","U+107B0","U+107B2",
  "U+107B3","U+107B4","U+107B5","U+107B6","U+107B7","U+107B8","U+107B9",
  "U+107BA","U+10C80","U+10C81","U+10C82","U+10C83","U+10C84","U+10C85",
  "U+10C86","U+10C87","U+10C88","U+10C89","U+10C8A","U+10C8B","U+10C8C",
  "U+10C8D","U+10C8E","U+10C8F","U+10C90","U+10C91","U+10C92","U+10C93",
  "U+10C94","U+10C95","U+10C96","U+10C97","U+10C98","U+10C99","U+10C9A",
  "U+10C9B","U+10C9C","U+10C9D","U+10C9E","U+10C9F","U+10CA0","U+10CA1",
  "U+10CA2","U+10CA3","U+10CA4","U+10CA5","U+10CA6","U+10CA7","U+10CA8",
  "U+10CA9","U+10CAA","U+10CAB","U+10CAC","U+10CAD","U+10CAE","U+10CAF",
  "U+10CB0","U+10CB1","U+10CB2","U+10CC0","U+10CC1","U+10CC2","U+10CC3",
  "U+10CC4","U+10CC5","U+10CC6","U+10CC7","U+10CC8","U+10CC9","U+10CCA",
  "U+10CCB","U+10CCC","U+10CCD","U+10CCE","U+10CCF","U+10CD0","U+10CD1",
  "U+10CD2","U+10CD3","U+10CD4","U+10CD5","U+10CD6","U+10CD7","U+10CD8",
  "U+10CD9","U+10CDA","U+10CDB","U+10CDC","U+10CDD","U+10CDE","U+10CDF",
  "U+10CE0","U+10CE1","U+10CE2","U+10CE3","U+10CE4","U+10CE5","U+10CE6",
  "U+10CE7","U+10CE8","U+10CE9","U+10CEA","U+10CEB","U+10CEC","U+10CED",
  "U+10CEE","U+10CEF","U+10CF0","U+10CF1","U+10CF2","U+10D50","U+10D51",
  "U+10D52","U+10D53","U+10D54","U+10D55","U+10D56","U+10D57","U+10D58",
  "U+10D59","U+10D5A","U+10D5B","U+10D5C","U+10D5D","U+10D5E","U+10D5F",
  "U+10D60","U+10D61","U+10D62","U+10D63","U+10D64","U+10D65","U+10D70",
  "U+10D71","U+10D72","U+10D73","U+10D74","U+10D75","U+10D76","U+10D77",
  "U+10D78","U+10D79","U+10D7A","U+10D7B","U+10D7C","U+10D7D","U+10D7E",
  "U+10D7F","U+10D80","U+10D81","U+10D82","U+10D83","U+10D84","U+10D85",
  "U+118A0","U+118A1","U+118A2","U+118A3","U+118A4","U+118A5","U+118A6",
  "U+118A7","U+118A8","U+118A9","U+118AA","U+118AB","U+118AC","U+118AD",
  "U+118AE","U+118AF","U+118B0","U+118B1","U+118B2","U+118B3","U+118B4",
  "U+118B5","U+118B6","U+118B7","U+118B8","U+118B9","U+118BA","U+118BB",
  "U+118BC","U+118BD","U+118BE","U+118BF","U+118C0","U+118C1","U+118C2",
  "U+118C3","U+118C4","U+118C5","U+118C6","U+118C7","U+118C8","U+118C9",
  "U+118CA","U+118CB","U+118CC","U+118CD","U+118CE","U+118CF","U+118D0",
  "U+118D1","U+118D2","U+118D3","U+118D4","U+118D5","U+118D6","U+118D7",
  "U+118D8","U+118D9","U+118DA","U+118DB","U+118DC","U+118DD","U+118DE",
  "U+118DF","U+16E40","U+16E41","U+16E42","U+16E43","U+16E44","U+16E45",
  "U+16E46","U+16E47","U+16E48","U+16E49","U+16E4A","U+16E4B","U+16E4C",
  "U+16E4D","U+16E4E","U+16E4F","U+16E50","U+16E51","U+16E52","U+16E53",
  "U+16E54","U+16E55","U+16E56","U+16E57","U+16E58","U+16E59","U+16E5A",
  "U+16E5B","U+16E5C","U+16E5D","U+16E5E","U+16E5F","U+16E60","U+16E61",
  "U+16E62","U+16E63","U+16E64","U+16E65","U+16E66","U+16E67","U+16E68",
  "U+16E69","U+16E6A","U+16E6B","U+16E6C","U+16E6D","U+16E6E","U+16E6F",
  "U+16E70","U+16E71","U+16E72","U+16E73","U+16E74","U+16E75","U+16E76",
  "U+16E77","U+16E78","U+16E79","U+16E7A","U+16E7B","U+16E7C","U+16E7D",
  "U+16E7E","U+16E7F","U+16EA0","U+16EA1","U+16EA2","U+16EA3","U+16EA4",
  "U+16EA5","U+16EA6","U+16EA7","U+16EA8","U+16EA9","U+16EAA","U+16EAB",
  "U+16EAC","U+16EAD","U+16EAE","U+16EAF","U+16EB0","U+16EB1","U+16EB2",
  "U+16EB3","U+16EB4","U+16EB5","U+16EB6","U+16EB7","U+16EB8","U+16EBB",
  "U+16EBC","U+16EBD","U+16EBE","U+16EBF","U+16EC0","U+16EC1","U+16EC2",
  "U+16EC3","U+16EC4","U+16EC5","U+16EC6","U+16EC7","U+16EC8","U+16EC9",
  "U+16ECA","U+16ECB","U+16ECC","U+16ECD","U+16ECE","U+16ECF","U+16ED0",
  "U+16ED1","U+16ED2","U+16ED3","U+1D400","U+1D401","U+1D402","U+1D403",
  "U+1D404","U+1D405","U+1D406","U+1D407","U+1D408","U+1D409","U+1D40A",
  "U+1D40B","U+1D40C","U+1D40D","U+1D40E","U+1D40F","U+1D410","U+1D411",
  "U+1D412","U+1D413","U+1D414","U+1D415","U+1D416","U+1D417","U+1D418",
  "U+1D419","U+1D41A","U+1D41B","U+1D41C","U+1D41D","U+1D41E","U+1D41F",
  "U+1D420","U+1D421","U+1D422","U+1D423","U+1D424","U+1D425","U+1D426",
  "U+1D427","U+1D428","U+1D429","U+1D42A","U+1D42B","U+1D42C","U+1D42D",
  "U+1D42E","U+1D42F","U+1D430","U+1D431","U+1D432","U+1D433","U+1D434",
  "U+1D435","U+1D436","U+1D437","U+1D438","U+1D439","U+1D43A","U+1D43B",
  "U+1D43C","U+1D43D","U+1D43E","U+1D43F","U+1D440","U+1D441","U+1D442",
  "U+1D443","U+1D444","U+1D445","U+1D446","U+1D447","U+1D448","U+1D449",
  "U+1D44A","U+1D44B","U+1D44C","U+1D44D","U+1D44E","U+1D44F","U+1D450",
  "U+1D451","U+1D452","U+1D453","U+1D454","U+1D456","U+1D457","U+1D458",
  "U+1D459","U+1D45A","U+1D45B","U+1D45C","U+1D45D","U+1D45E","U+1D45F",
  "U+1D460","U+1D461","U+1D462","U+1D463","U+1D464","U+1D465","U+1D466",
  "U+1D467","U+1D468","U+1D469","U+1D46A","U+1D46B","U+1D46C","U+1D46D",
  "U+1D46E","U+1D46F","U+1D470","U+1D471","U+1D472","U+1D473","U+1D474",
  "U+1D475","U+1D476","U+1D477","U+1D478","U+1D479","U+1D47A","U+1D47B",
  "U+1D47C","U+1D47D","U+1D47E","U+1D47F","U+1D480","U+1D481","U+1D482",
  "U+1D483","U+1D484","U+1D485","U+1D486","U+1D487","U+1D488","U+1D489",
  "U+1D48A","U+1D48B","U+1D48C","U+1D48D","U+1D48E","U+1D48F","U+1D490",
  "U+1D491","U+1D492","U+1D493","U+1D494","U+1D495","U+1D496","U+1D497",
  "U+1D498","U+1D499","U+1D49A","U+1D49B","U+1D49C","U+1D49E","U+1D49F",
  "U+1D4A2","U+1D4A5","U+1D4A6","U+1D4A9","U+1D4AA","U+1D4AB","U+1D4AC",
  "U+1D4AE","U+1D4AF","U+1D4B0","U+1D4B1","U+1D4B2","U+1D4B3","U+1D4B4",
  "U+1D4B5","U+1D4B6","U+1D4B7","U+1D4B8","U+1D4B9","U+1D4BB","U+1D4BD",
  "U+1D4BE","U+1D4BF","U+1D4C0","U+1D4C1","U+1D4C2","U+1D4C3","U+1D4C5",
  "U+1D4C6","U+1D4C7","U+1D4C8","U+1D4C9","U+1D4CA","U+1D4CB","U+1D4CC",
  "U+1D4CD","U+1D4CE","U+1D4CF","U+1D4D0","U+1D4D1","U+1D4D2","U+1D4D3",
  "U+1D4D4","U+1D4D5","U+1D4D6","U+1D4D7","U+1D4D8","U+1D4D9","U+1D4DA",
  "U+1D4DB","U+1D4DC","U+1D4DD","U+1D4DE","U+1D4DF","U+1D4E0","U+1D4E1",
  "U+1D4E2","U+1D4E3","U+1D4E4","U+1D4E5","U+1D4E6","U+1D4E7","U+1D4E8",
  "U+1D4E9","U+1D4EA","U+1D4EB","U+1D4EC","U+1D4ED","U+1D4EE","U+1D4EF",
  "U+1D4F0","U+1D4F1","U+1D4F2","U+1D4F3","U+1D4F4","U+1D4F5","U+1D4F6",
  "U+1D4F7","U+1D4F8","U+1D4F9","U+1D4FA","U+1D4FB","U+1D4FC","U+1D4FD",
  "U+1D4FE","U+1D4FF","U+1D500","U+1D501","U+1D502","U+1D503","U+1D504",
  "U+1D505","U+1D507","U+1D508","U+1D509","U+1D50A","U+1D50D","U+1D50E",
  "U+1D50F","U+1D510","U+1D511","U+1D512","U+1D513","U+1D514","U+1D516",
  "U+1D517","U+1D518","U+1D519","U+1D51A","U+1D51B","U+1D51C","U+1D51E",
  "U+1D51F","U+1D520","U+1D521","U+1D522","U+1D523","U+1D524","U+1D525",
  "U+1D526","U+1D527","U+1D528","U+1D529","U+1D52A","U+1D52B","U+1D52C",
  "U+1D52D","U+1D52E","U+1D52F","U+1D530","U+1D531","U+1D532","U+1D533",
  "U+1D534","U+1D535","U+1D536","U+1D537","U+1D538","U+1D539","U+1D53B",
  "U+1D53C","U+1D53D","U+1D53E","U+1D540","U+1D541","U+1D542","U+1D543",
  "U+1D544","U+1D546","U+1D54A","U+1D54B","U+1D54C","U+1D54D","U+1D54E",
  "U+1D54F","U+1D550","U+1D552","U+1D553","U+1D554","U+1D555","U+1D556",
  "U+1D557","U+1D558","U+1D559","U+1D55A","U+1D55B","U+1D55C","U+1D55D",
  "U+1D55E","U+1D55F","U+1D560","U+1D561","U+1D562","U+1D563","U+1D564",
  "U+1D565","U+1D566","U+1D567","U+1D568","U+1D569","U+1D56A","U+1D56B",
  "U+1D56C","U+1D56D","U+1D56E","U+1D56F","U+1D570","U+1D571","U+1D572",
  "U+1D573","U+1D574","U+1D575","U+1D576","U+1D577","U+1D578","U+1D579",
  "U+1D57A","U+1D57B","U+1D57C","U+1D57D","U+1D57E","U+1D57F","U+1D580",
  "U+1D581","U+1D582","U+1D583","U+1D584","U+1D585","U+1D586","U+1D587",
  "U+1D588","U+1D589","U+1D58A","U+1D58B","U+1D58C","U+1D58D","U+1D58E",
  "U+1D58F","U+1D590","U+1D591","U+1D592","U+1D593","U+1D594","U+1D595",
  "U+1D596","U+1D597","U+1D598","U+1D599","U+1D59A","U+1D59B","U+1D59C",
  "U+1D59D","U+1D59E","U+1D59F","U+1D5A0","U+1D5A1","U+1D5A2","U+1D5A3",
  "U+1D5A4","U+1D5A5","U+1D5A6","U+1D5A7","U+1D5A8","U+1D5A9","U+1D5AA",
  "U+1D5AB","U+1D5AC","U+1D5AD","U+1D5AE","U+1D5AF","U+1D5B0","U+1D5B1",
  "U+1D5B2","U+1D5B3","U+1D5B4","U+1D5B5","U+1D5B6","U+1D5B7","U+1D5B8",
  "U+1D5B9","U+1D5BA","U+1D5BB","U+1D5BC","U+1D5BD","U+1D5BE","U+1D5BF",
  "U+1D5C0","U+1D5C1","U+1D5C2","U+1D5C3","U+1D5C4","U+1D5C5","U+1D5C6",
  "U+1D5C7","U+1D5C8","U+1D5C9","U+1D5CA","U+1D5CB","U+1D5CC","U+1D5CD",
  "U+1D5CE","U+1D5CF","U+1D5D0","U+1D5D1","U+1D5D2","U+1D5D3","U+1D5D4",
  "U+1D5D5","U+1D5D6","U+1D5D7","U+1D5D8","U+1D5D9","U+1D5DA","U+1D5DB",
  "U+1D5DC","U+1D5DD","U+1D5DE","U+1D5DF","U+1D5E0","U+1D5E1","U+1D5E2",
  "U+1D5E3","U+1D5E4","U+1D5E5","U+1D5E6","U+1D5E7","U+1D5E8","U+1D5E9",
  "U+1D5EA","U+1D5EB","U+1D5EC","U+1D5ED","U+1D5EE","U+1D5EF","U+1D5F0",
  "U+1D5F1","U+1D5F2","U+1D5F3","U+1D5F4","U+1D5F5","U+1D5F6","U+1D5F7",
  "U+1D5F8","U+1D5F9","U+1D5FA","U+1D5FB","U+1D5FC","U+1D5FD","U+1D5FE",
  "U+1D5FF","U+1D600","U+1D601","U+1D602","U+1D603","U+1D604","U+1D605",
  "U+1D606","U+1D607","U+1D608","U+1D609","U+1D60A","U+1D60B","U+1D60C",
  "U+1D60D","U+1D60E","U+1D60F","U+1D610","U+1D611","U+1D612","U+1D613",
  "U+1D614","U+1D615","U+1D616","U+1D617","U+1D618","U+1D619","U+1D61A",
  "U+1D61B","U+1D61C","U+1D61D","U+1D61E","U+1D61F","U+1D620","U+1D621",
  "U+1D622","U+1D623","U+1D624","U+1D625","U+1D626","U+1D627","U+1D628",
  "U+1D629","U+1D62A","U+1D62B","U+1D62C","U+1D62D","U+1D62E","U+1D62F",
  "U+1D630","U+1D631","U+1D632","U+1D633","U+1D634","U+1D635","U+1D636",
  "U+1D637","U+1D638","U+1D639","U+1D63A","U+1D63B","U+1D63C","U+1D63D",
  "U+1D63E","U+1D63F","U+1D640","U+1D641","U+1D642","U+1D643","U+1D644",
  "U+1D645","U+1D646","U+1D647","U+1D648","U+1D649","U+1D64A","U+1D64B",
  "U+1D64C","U+1D64D","U+1D64E","U+1D64F","U+1D650","U+1D651","U+1D652",
  "U+1D653","U+1D654","U+1D655","U+1D656","U+1D657","U+1D658","U+1D659",
  "U+1D65A","U+1D65B","U+1D65C","U+1D65D","U+1D65E","U+1D65F","U+1D660",
  "U+1D661","U+1D662","U+1D663","U+1D664","U+1D665","U+1D666","U+1D667",
  "U+1D668","U+1D669","U+1D66A","U+1D66B","U+1D66C","U+1D66D","U+1D66E",
  "U+1D66F","U+1D670","U+1D671","U+1D672","U+1D673","U+1D674","U+1D675",
  "U+1D676","U+1D677","U+1D678","U+1D679","U+1D67A","U+1D67B","U+1D67C",
  "U+1D67D","U+1D67E","U+1D67F","U+1D680","U+1D681","U+1D682","U+1D683",
  "U+1D684","U+1D685","U+1D686","U+1D687","U+1D688","U+1D689","U+1D68A",
  "U+1D68B","U+1D68C","U+1D68D","U+1D68E","U+1D68F","U+1D690","U+1D691",
  "U+1D692","U+1D693","U+1D694","U+1D695","U+1D696","U+1D697","U+1D698",
  "U+1D699","U+1D69A","U+1D69B","U+1D69C","U+1D69D","U+1D69E","U+1D69F",
  "U+1D6A0","U+1D6A1","U+1D6A2","U+1D6A3","U+1D6A4","U+1D6A5","U+1D6A8",
  "U+1D6A9","U+1D6AA","U+1D6AB","U+1D6AC","U+1D6AD","U+1D6AE","U+1D6AF",
  "U+1D6B0","U+1D6B1","U+1D6B2","U+1D6B3","U+1D6B4","U+1D6B5","U+1D6B6",
  "U+1D6B7","U+1D6B8","U+1D6B9","U+1D6BA","U+1D6BB","U+1D6BC","U+1D6BD",
  "U+1D6BE","U+1D6BF","U+1D6C0","U+1D6C2","U+1D6C3","U+1D6C4","U+1D6C5",
  "U+1D6C6","U+1D6C7","U+1D6C8","U+1D6C9","U+1D6CA","U+1D6CB","U+1D6CC",
  "U+1D6CD","U+1D6CE","U+1D6CF","U+1D6D0","U+1D6D1","U+1D6D2","U+1D6D3",
  "U+1D6D4","U+1D6D5","U+1D6D6","U+1D6D7","U+1D6D8","U+1D6D9","U+1D6DA",
  "U+1D6DC","U+1D6DD","U+1D6DE","U+1D6DF","U+1D6E0","U+1D6E1","U+1D6E2",
  "U+1D6E3","U+1D6E4","U+1D6E5","U+1D6E6","U+1D6E7","U+1D6E8","U+1D6E9",
  "U+1D6EA","U+1D6EB","U+1D6EC","U+1D6ED","U+1D6EE","U+1D6EF","U+1D6F0",
  "U+1D6F1","U+1D6F2","U+1D6F3","U+1D6F4","U+1D6F5","U+1D6F6","U+1D6F7",
  "U+1D6F8","U+1D6F9","U+1D6FA","U+1D6FC","U+1D6FD","U+1D6FE","U+1D6FF",
  "U+1D700","U+1D701","U+1D702","U+1D703","U+1D704","U+1D705","U+1D706",
  "U+1D707","U+1D708","U+1D709","U+1D70A","U+1D70B","U+1D70C","U+1D70D",
  "U+1D70E","U+1D70F","U+1D710","U+1D711","U+1D712","U+1D713","U+1D714",
  "U+1D716","U+1D717","U+1D718","U+1D719","U+1D71A","U+1D71B","U+1D71C",
  "U+1D71D","U+1D71E","U+1D71F","U+1D720","U+1D721","U+1D722","U+1D723",
  "U+1D724","U+1D725","U+1D726","U+1D727","U+1D728","U+1D729","U+1D72A",
  "U+1D72B","U+1D72C","U+1D72D","U+1D72E","U+1D72F","U+1D730","U+1D731",
  "U+1D732","U+1D733","U+1D734","U+1D736","U+1D737","U+1D738","U+1D739",
  "U+1D73A","U+1D73B","U+1D73C","U+1D73D","U+1D73E","U+1D73F","U+1D740",
  "U+1D741","U+1D742","U+1D743","U+1D744","U+1D745","U+1D746","U+1D747",
  "U+1D748","U+1D749","U+1D74A","U+1D74B","U+1D74C","U+1D74D","U+1D74E",
  "U+1D750","U+1D751","U+1D752","U+1D753","U+1D754","U+1D755","U+1D756",
  "U+1D757","U+1D758","U+1D759","U+1D75A","U+1D75B","U+1D75C","U+1D75D",
  "U+1D75E","U+1D75F","U+1D760","U+1D761","U+1D762","U+1D763","U+1D764",
  "U+1D765","U+1D766","U+1D767","U+1D768","U+1D769","U+1D76A","U+1D76B",
  "U+1D76C","U+1D76D","U+1D76E","U+1D770","U+1D771","U+1D772","U+1D773",
  "U+1D774","U+1D775","U+1D776","U+1D777","U+1D778","U+1D779","U+1D77A",
  "U+1D77B","U+1D77C","U+1D77D","U+1D77E","U+1D77F","U+1D780","U+1D781",
  "U+1D782","U+1D783","U+1D784","U+1D785","U+1D786","U+1D787","U+1D788",
  "U+1D78A","U+1D78B","U+1D78C","U+1D78D","U+1D78E","U+1D78F","U+1D790",
  "U+1D791","U+1D792","U+1D793","U+1D794","U+1D795","U+1D796","U+1D797",
  "U+1D798","U+1D799","U+1D79A","U+1D79B","U+1D79C","U+1D79D","U+1D79E",
  "U+1D79F","U+1D7A0","U+1D7A1","U+1D7A2","U+1D7A3","U+1D7A4","U+1D7A5",
  "U+1D7A6","U+1D7A7","U+1D7A8","U+1D7AA","U+1D7AB","U+1D7AC","U+1D7AD",
  "U+1D7AE","U+1D7AF","U+1D7B0","U+1D7B1","U+1D7B2","U+1D7B3","U+1D7B4",
  "U+1D7B5","U+1D7B6","U+1D7B7","U+1D7B8","U+1D7B9","U+1D7BA","U+1D7BB",
  "U+1D7BC","U+1D7BD","U+1D7BE","U+1D7BF","U+1D7C0","U+1D7C1","U+1D7C2",
  "U+1D7C4","U+1D7C5","U+1D7C6","U+1D7C7","U+1D7C8","U+1D7C9","U+1D7CA",
  "U+1D7CB","U+1DF00","U+1DF01","U+1DF02","U+1DF03","U+1DF04","U+1DF05",
  "U+1DF06","U+1DF07","U+1DF08","U+1DF09","U+1DF0B","U+1DF0C","U+1DF0D",
  "U+1DF0E","U+1DF0F","U+1DF10","U+1DF11","U+1DF12","U+1DF13","U+1DF14",
  "U+1DF15","U+1DF16","U+1DF17","U+1DF18","U+1DF19","U+1DF1A","U+1DF1B",
  "U+1DF1C","U+1DF1D","U+1DF1E","U+1DF25","U+1DF26","U+1DF27","U+1DF28",
  "U+1DF29","U+1DF2A","U+1E030","U+1E031","U+1E032","U+1E033","U+1E034",
  "U+1E035","U+1E036","U+1E037","U+1E038","U+1E039","U+1E03A","U+1E03B",
  "U+1E03C","U+1E03D","U+1E03E","U+1E03F","U+1E040","U+1E041","U+1E042",
  "U+1E043","U+1E044","U+1E045","U+1E046","U+1E047","U+1E048","U+1E049",
  "U+1E04A","U+1E04B","U+1E04C","U+1E04D","U+1E04E","U+1E04F","U+1E050",
  "U+1E051","U+1E052","U+1E053","U+1E054","U+1E055","U+1E056","U+1E057",
  "U+1E058","U+1E059","U+1E05A","U+1E05B","U+1E05C","U+1E05D","U+1E05E",
  "U+1E05F","U+1E060","U+1E061","U+1E062","U+1E063","U+1E064","U+1E065",
  "U+1E066","U+1E067","U+1E068","U+1E069","U+1E06A","U+1E06B","U+1E06C",
  "U+1E06D","U+1E900","U+1E901","U+1E902","U+1E903","U+1E904","U+1E905",
  "U+1E906","U+1E907","U+1E908","U+1E909","U+1E90A","U+1E90B","U+1E90C",
  "U+1E90D","U+1E90E","U+1E90F","U+1E910","U+1E911","U+1E912","U+1E913",
  "U+1E914","U+1E915","U+1E916","U+1E917","U+1E918","U+1E919","U+1E91A",
  "U+1E91B","U+1E91C","U+1E91D","U+1E91E","U+1E91F","U+1E920","U+1E921",
  "U+1E922","U+1E923","U+1E924","U+1E925","U+1E926","U+1E927","U+1E928",
  "U+1E929","U+1E92A","U+1E92B","U+1E92C","U+1E92D","U+1E92E","U+1E92F",
  "U+1E930","U+1E931","U+1E932","U+1E933","U+1E934","U+1E935","U+1E936",
  "U+1E937","U+1E938","U+1E939","U+1E93A","U+1E93B","U+1E93C","U+1E93D",
  "U+1E93E","U+1E93F","U+1E940","U+1E941","U+1E942","U+1E943","U+1F130",
  "U+1F131","U+1F132","U+1F133","U+1F134","U+1F135","U+1F136","U+1F137",
  "U+1F138","U+1F139","U+1F13A","U+1F13B","U+1F13C","U+1F13D","U+1F13E",
  "U+1F13F","U+1F140","U+1F141","U+1F142","U+1F143","U+1F144","U+1F145",
  "U+1F146","U+1F147","U+1F148","U+1F149","U+1F150","U+1F151","U+1F152",
  "U+1F153","U+1F154","U+1F155","U+1F156","U+1F157","U+1F158","U+1F159",
  "U+1F15A","U+1F15B","U+1F15C","U+1F15D","U+1F15E","U+1F15F","U+1F160",
  "U+1F161","U+1F162","U+1F163","U+1F164","U+1F165","U+1F166","U+1F167",
  "U+1F168","U+1F169","U+1F170","U+1F171","U+1F172","U+1F173","U+1F174",
  "U+1F175","U+1F176","U+1F177","U+1F178","U+1F179","U+1F17A","U+1F17B",
  "U+1F17C","U+1F17D","U+1F17E","U+1F17F","U+1F180","U+1F181","U+1F182",
  "U+1F183","U+1F184","U+1F185","U+1F186","U+1F187","U+1F188","U+1F189"}

Case_Ignorable == {
  "'",".",":","^","U+0060","U+00A8","U+00AD","U+00AF","U+00B4","U+00B7",
  "U+00B8","U+02B0","U+02B1","U+02B2","U+02B3","U+02B4","U+02B5","U+02B6",
  "U+02B7","U+02B8","U+02B9","U+02BA","U+02BB","U+02BC","U+02BD","U+02BE",
  "U+02BF","U+02C0","U+02C1","U+02C2","U+02C3","U+02C4","U+02C5","U+02C6",
  "U+02C7","U+02C8","U+02C9","U+02CA","U+02CB","U+02CC","U+02CD","U+02CE",
  "U+02CF","U+02D0","U+02D1","U+02D2","U+02D3","U+02D4","U+02D5","U+02D6",
  "U+02D7","U+02D8","U+02D9","U+02DA","U+02DB","U+02DC","U+02DD","U+02DE",
  "U+02DF","U+02E0","U+02E1","U+02E2","U+02E3","U+02E4","U+02E5","U+02E6",
  "U+02E7","U+02E8","U+02E9","U+02EA","U+02EB","U+02EC","U+02ED","U+02EE",
  "U+02EF","U+02F0","U+02F1","U+02F2","U+02F3","U+02F4","U+02F5","U+02F6",
  "U+02F7","U+02F8","U+02F9","U+02FA","U+02FB","U+02FC","U+02FD","U+02FE",
  "U+02FF","U+0300","U+0301","U+0302","U+0303","U+0304","U+0305","U+0306",
  "U+0307","U+0308","U+0309","U+030A","U+030B","U+030C","U+030D","U+030E",
  "U+030F","U+0310","U+0311","U+0312","U+0313","U+0314","U+0315","U+0316",
  "U+0317","U+0318","U+0319","U+031A","U+031B","U+031C","U+031D","U+031E",
  "U+031F","U+0320","U+0321","U+0322","U+0323","U+0324","U+0325","U+0326",
  "U+0327","U+0328","U+0329","U+032A","U+032B","U+032C","U+032D","U+032E",
  "U+032F","U+0330","U+0331","U+0332","U+0333","U+0334","U+0335","U+0336",
  "U+0337","U+0338","U+0339","U+033A","U+033B","U+033C","U+033D","U+033E",
  "U+033F","U+0340","U+0341","U+0342","U+0343","U+0344","U+0345","U+0346",
  "U+0347","U+0348","U+0349","U+034A","U+034B","U+034C","U+034D","U+034E",
  "U+034F","U+0350","U+0351","U+0352","U+0353","U+0354","U+0355","U+0356",
  "U+0357","U+0358","U+0359","U+035A","U+035B","U+035C","U+035D","U+035E",
  "U+035F","U+0360","U+0361","U+0362","U+0363","U+0364","U+0365","U+0366",
  "U+0367","U+0368","U+0369","U+036A","U+036B","U+036C","U+036D","U+036E",
  "U+036F","U+0374","U+0375","U+037A","U+0384","U+0385","U+0387","U+0483",
  "U+0484","U+0485","U+0486","U+0487","U+0488","U+0489","U+0559","U+055F",
  "U+0591","U+0592","U+0593","U+0594","U+0595","U+0596","U+0597","U+0598",
  "U+0599","U+059A","U+059B","U+059C","U+059D","U+059E","U+059F","U+05A0",
  "U+05A1","U+05A2","U+05A3","U+05A4","U+05A5","U+05A6","U+05A7","U+05A8",
  "U+05A9","U+05AA","U+05AB","U+05AC","U+05AD","U+05AE","U+05AF","U+05B0",
  "U+05B1","U+05B2","U+05B3","U+05B4","U+05B5","U+05B6","U+05B7","U+05B8",
  "U+05B9","U+05BA","U+05BB","U+05BC","U+05BD","U+05BF","U+05C1","U+05C2",
  "U+05C4","U+05C5","U+05C7","U+05F4","U+0600","U+0601","U+0602","U+0603",
  "U+0604","U+0605","U+0610","U+0611","U+0612","U+0613","U+0614","U+0615",
  "U+0616","U+0617","U+0618","U+0619","U+061A","U+061C","U+0640","U+064B",
  "U+064C","U+064D","U+064E","U+064F","U+0650","U+0651","U+0652","U+0653",
  "U+0654","U+0655","U+0656","U+0657","U+0658","U+0659","U+065A","U+065B",
  "U+065C","U+065D","U+065E","U+065F","U+0670","U+06D6","U+06D7","U+06D8",
  "U+06D9","U+06DA","U+06DB","U+06DC","U+06DD","U+06DF","U+06E0","U+06E1",
  "U+06E2","U+06E3","U+06E4","U+06E5","U+06E6","U+06E7","U+06E8","U+06EA",
  "U+06EB","U+06EC","U+06ED","U+070F","U+0711","U+0730","U+0731","U+0732",
  "U+0733","U+0734","U+0735","U+0736","U+0737","U+0738","U+0739","U+073A",
  "U+073B","U+073C","U+073D","U+073E","U+073F","U+0740","U+0741","U+0742",
  "U+0743","U+0744","U+0745","U+0746","U+0747","U+0748","U+0749","U+074A",
  "U+07A6","U+07A7","U+07A8","U+07A9","U+07AA","U+07AB","U+07AC","U+07AD",
  "U+07AE","U+07AF","U+07B0","U+07EB","U+07EC","U+07ED","U+07EE","U+07EF",
  "U+07F0","U+07F1","U+07F2","U+07F3","U+07F4","U+07F5","U+07FA","U+07FD",
  "U+0816","U+0817","U+0818","U+0819","U+081A","U+081B","U+081C","U+081D",
  "U+081E","U+081F","U+0820","U+0821","U+0822","U+0823","U+0824","U+0825",
  "U+0826","U+0827","U+0828","U+0829","U+082A","U+082B","U+082C","U+082D",
  "U+0859","U+085A","U+085B","U+0888","U+0890","U+0891","U+0897","U+0898",
  "U+0899","U+089A","U+089B","U+089C","U+089D","U+089E","U+089F","U+08C9",
  "U+08CA","U+08CB","U+08CC","U+08CD","U+08CE","U+08CF","U+08D0","U+08D1",
  "U+08D2","U+08D3","U+08D4","U+08D5","U+08D6","U+08D7","U+08D8","U+08D9",
  "U+08DA","U+08DB","U+08DC","U+08DD","U+08DE","U+08DF","U+08E0","U+08E1",
  "U+08E2","U+08E3","U+08E4","U+08E5","U+08E6","U+08E7","U+08E8","U+08E9",
  "U+08EA","U+08EB","U+08EC","U+08ED","U+08EE","U+08EF","U+08F0","U+08F1",
  "U+08F2","U+08F3","U+08F4","U+08F5","U+08F6","U+08F7","U+08F8","U+08F9",
  "U+08FA","U+08FB","U+08FC","U+08FD","U+08FE","U+08FF","U+0900","U+0901",
  "U+0902","U+093A","U+093C","U+0941","U+0942","U+0943","U+0944","U+0945",
  "U+0946","U+0947","U+0948","U+094D","U+0951","U+0952","U+0953","U+0954",
  "U+0955","U+0956","U+0957","U+0962","U+0963","U+0971","U+0981","U+09BC",
  "U+09C1","U+09C2","U+09C3","U+09C4","U+09CD","U+09E2","U+09E3","U+09FE",
  "U+0A01","U+0A02","U+0A3C","U+0A41","U+0A42","U+0A47","U+0A48","U+0A4B",
  "U+0A4C","U+0A4D","U+0A51","U+0A70","U+0A71","U+0A75","U+0A81","U+0A82",
  "U+0ABC","U+0AC1","U+0AC2","U+0AC3","U+0AC4","U+0AC5","U+0AC7","U+0AC8",
  "U+0ACD","U+0AE2","U+0AE3","U+0AFA","U+0AFB","U+0AFC","U+0AFD","U+0AFE",
  "U+0AFF","U+0B01","U+0B3C","U+0B3F","U+0B41","U+0B42","U+0B43","U+0B44",
  "U+0B4D","U+0B55","U+0B56","U+0B62","U+0B63","U+0B82","U+0BC0","U+0BCD",
  "U+0C00","U+0C04","U+0C3C","U+0C3E","U+0C3F","U+0C40","U+0C46","U+0C47",
  "U+0C48","U+0C4A","U+0C4B","U+0C4C","U+0C4D","U+0C55","U+0C56","U+0C62",
  "U+0C63","U+0C81","U+0CBC","U+0CBF","U+0CC6","U+0CCC","U+0CCD","U+0CE2",
  "U+0CE3","U+0D00","U+0D01","U+0D3B","U+0D3C","U+0D41","U+0D42","U+0D43",
  "U+0D44","U+0D4D","U+0D62","U+0D63","U+0D81","U+0DCA","U+0DD2","U+0DD3",
  "U+0DD4","U+0DD6","U+0E31","U+0E34","U+0E35","U+0E36","U+0E37","U+0E38",
  "U+0E39","U+0E3A","U+0E46","U+0E47","U+0E48","U+0E49","U+0E4A","U+0E4B",
  "U+0E4C","U+0E4D","U+0E4E","U+0EB1","U+0EB4","U+0EB5","U+0EB6","U+0EB7",
  "U+0EB8","U+0EB9","U+0EBA","U+0EBB","U+0EBC","U+0EC6","U+0EC8","U+0EC9",
  "U+0ECA","U+0ECB","U+0ECC","U+0ECD","U+0ECE","U+0F18","U+0F19","U+0F35",
  "U+0F37","U+0F39","U+0F71","U+0F72","U+0F73","U+0F74","U+0F75","U+0F76",
  "U+0F77","U+0F78","U+0F79","U+0F7A","U+0F7B","U+0F7C","U+0F7D","U+0F7E",
  "U+0F80","U+0F81","U+0F82","U+0F83","U+0F84","U+0F86","U+0F87","U+0F8D",
  "U+0F8E","U+0F8F","U+0F90","U+0F91","U+0F92","U+0F93","U+0F94","U+0F95",
  "U+0F96","U+0F97","U+0F99","U+0F9A","U+0F9B","U+0F9C","U+0F9D","U+0F9E",
  "U+0F9F","U+0FA0","U+0FA1","U+0FA2","U+0FA3","U+0FA4","U+0FA5","U+0FA6",
  "U+0FA7","U+0FA8","U+0FA9","U+0FAA","U+0FAB","U+0FAC","U+0FAD","U+0FAE",
  "U+0FAF","U+0FB0","U+0FB1","U+0FB2","U+0FB3","U+0FB4","U+0FB5","U+0FB6",
  "U+0FB7","U+0FB8","U+0FB9","U+0FBA","U+0FBB","U+0FBC","U+0FC6","U+102D",
  "U+102E","U+102F","U+1030","U+1032","U+1033","U+1034","U+1035","U+1036",
  "U+1037","U+1039","U+103A","U+103D","U+103E","U+1058","U+1059","U+105E",
  "U+105F","U+1060","U+1071","U+1072","U+1073","U+1074","U+1082","U+1085",
  "U+1086","U+108D","U+109D","U+10FC","U+135D","U+135E","U+135F","U+1712",
  "U+1713","U+1714","U+1732","U+1733","U+1752","U+1753","U+1772","U+1773",
  "U+17B4","U+17B5","U+17B7","U+17B8","U+17B9","U+17BA","U+17BB","U+17BC",
  "U+17BD","U+17C6","U+17C9","U+17CA","U+17CB","U+17CC","U+17CD","U+17CE",
  "U+17CF","U+17D0","U+17D1","U+17D2","U+17D3","U+17D7","U+17DD","U+180B",
  "U+180C","U+180D","U+180E","U+180F","U+1843","U+1885","U+1886","U+18A9",
  "U+1920","U+1921","U+1922","U+1927","U+1928","U+1932","U+1939","U+193A",
  "U+193B","U+1A17","U+1A18","U+1A1B","U+1A56","U+1A58","U+1A59","U+1A5A",
  "U+1A5B","U+1A5C","U+1A5D","U+1A5E","U+1A60","U+1A62","U+1A65","U+1A66",
  "U+1A67","U+1A68","U+1A69","U+1A6A","U+1A6B","U+1A6C","U+1A73","U+1A74",
  "U+1A75","U+1A76","U+1A77","U+1A78","U+1A79","U+1A7A","U+1A7B","U+1A7C",
  "U+1A7F","U+1AA7","U+1AB0","U+1AB1","U+1AB2","U+1AB3","U+1AB4","U+1AB5",
  "U+1AB6","U+1AB7","U+1AB8","U+1AB9","U+1ABA","U+1ABB","U+1ABC","U+1ABD",
  "U+1ABE","U+1ABF","U+1AC0","U+1AC1","U+1AC2","U+1AC3","U+1AC4","U+1AC5",
  "U+1AC6","U+1AC7","U+1AC8","U+1AC9","U+1ACA","U+1ACB","U+1ACC","U+1ACD",
  "U+1ACE","U+1ACF","U+1AD0","U+1AD1","U+1AD2","U+1AD3","U+1AD4","U+1AD5",
  "U+1AD6","U+1AD7","U+1AD8","U+1AD9","U+1ADA","U+1ADB","U+1ADC","U+1ADD",
  "U+1AE0","U+1AE1","U+1AE2","U+1AE3","U+1AE4","U+1AE5","U+1AE6","U+1AE7",
  "U+1AE8","U+1AE9","U+1AEA","U+1AEB","U+1B00","U+1B01","U+1B02","U+1B03",
  "U+1B34","U+1B36","U+1B37","U+1B38","U+1B39","U+1B3A","U+1B3C","U+1B42",
  "U+1B6B","U+1B6C","U+1B6D","U+1B6E","U+1B6F","U+1B70","U+1B71","U+1B72",
  "U+1B73","U+1B80","U+1B81","U+1BA2","U+1BA3","U+1BA4","U+1BA5","U+1BA8",
  "U+1BA9","U+1BAB","U+1BAC","U+1BAD","U+1BE6","U+1BE8","U+1BE9","U+1BED",
  "U+1BEF","U+1BF0","U+1BF1","U+1C2C","U+1C2D","U+1C2E","U+1C2F","U+1C30",
  "U+1C31","U+1C32","U+1C33","U+1C36","U+1C37","U+1C78","U+1C79","U+1C7A",
  "U+1C7B","U+1C7C","U+1C7D","U+1CD0","U+1CD1","U+1CD2","U+1CD4","U+1CD5",
  "U+1CD6","U+1CD7","U+1CD8","U+1CD9","U+1CDA","U+1CDB","U+1CDC","U+1CDD",
  "U+1CDE","U+1CDF","U+1CE0","U+1CE2","U+1CE3","U+1CE4","U+1CE5","U+1CE6",
  "U+1CE7","U+1CE8","U+1CED","U+1CF4","U+1CF8","U+1CF9","U+1D2C","U+1D2D",
  "U+1D2E","U+1D2F","U+1D30","U+1D31","U+1D32","U+1D33","U+1D34","U+1D35",
  "U+1D36","U+1D37","U+1D38","U+1D39","U+1D3A","U+1D3B","U+1D3C","U+1D3D",
  "U+1D3E","U+1D3F","U+1D40","U+1D41","U+1D42","U+1D43","U+1D44","U+1D45",
  "U+1D46","U+1D47","U+1D48","U+1D49","U+1D4A","U+1D4B","U+1D4C","U+1D4D",
  "U+1D4E","U+1D4F","U+1D50","U+1D51","U+1D52","U+1D53","U+1D54","U+1D55",
  "U+1D56","U+1D57","U+1D58","U+1D59","U+1D5A","U+1D5B","U+1D5C","U+1D5D",
  "U+1D5E","U+1D5F","U+1D60","U+1D61","U+1D62","U+1D63","U+1D64","U+1D65",
  "U+1D66","U+1D67","U+1D68","U+1D69","U+1D6A","U+1D78","U+1D9B","U+1D9C",
  "U+1D9D","U+1D9E","U+1D9F","U+1DA0","U+1DA1","U+1DA2","U+1DA3","U+1DA4",
  "U+1DA5","U+1DA6","U+1DA7","U+1DA8","U+1DA9","U+1DAA","U+1DAB","U+1DAC",
  "U+1DAD","U+1DAE","U+1DAF","U+1DB0","U+1DB1","U+1DB2","U+1DB3","U+1DB4",
  "U+1DB5","U+1DB6","U+1DB7","U+1DB8","U+1DB9","U+1DBA","U+1DBB","U+1DBC",
  "U+1DBD","U+1DBE","U+1DBF","U+1DC0","U+1DC1","U+1DC2","U+1DC3","U+1DC4",
  "U+1DC5","U+1DC6","U+1DC7","U+1DC8","U+1DC9","U+1DCA","U+1DCB","U+1DCC",
  "U+1DCD","U+1DCE","U+1DCF","U+1DD0","U+1DD1","U+1DD2","U+1DD3","U+1DD4",
  "U+1DD5","U+1DD6","U+1DD7","U+1DD8","U+1DD9","U+1DDA","U+1DDB","U+1DDC",
  "U+1DDD","U+1DDE","U+1DDF","U+1DE0","U+1DE1","U+1DE2","U+1DE3","U+1DE4",
  "U+1DE5","U+1DE6","U+1DE7","U+1DE8","U+1DE9","U+1DEA","U+1DEB","U+1DEC",
  "U+1DED","U+1DEE","U+1DEF","U+1DF0","U+1DF1","U+1DF2","U+1DF3","U+1DF4",
  "U+1DF5","U+1DF6","U+1DF7","U+1DF8","U+1DF9","U+1DFA","U+1DFB","U+1DFC",
  "U+1DFD","U+1DFE","U+1DFF","U+1FBD","U+1FBF","U+1FC0","U+1FC1","U+1FCD",
  "U+1FCE","U+1FCF","U+1FDD","U+1FDE","U+1FDF","U+1FED","U+1FEE","U+1FEF",
  "U+1FFD","U+1FFE","U+200B","U+200C","U+200D","U+200E","U+200F","U+2018",
  "U+2019","U+2024","U+2027","U+202A","U+202B","U+202C","U+202D","U+202E",
  "U+2060","U+2061","U+2062","U+2063","U+2064","U+2066","U+2067","U+2068",
  "U+2069","U+206A","U+206B","U+206C","U+206D","U+206E","U+206F","U+2071",
  "U+207F","U+2090","U+2091","U+2092","U+2093","U+2094","U+2095","U+2096",
  "U+2097","U+2098","U+2099","U+209A","U+209B","U+209C","U+20D0","U+20D1",
  "U+20D2","U+20D3","U+20D4","U+20D5","U+20D6","U+20D7","U+20D8","U+20D9",
  "U+20DA","U+20DB","U+20DC","U+20DD","U+20DE","U+20DF","U+20E0","U+20E1",
  "U+20E2","U+20E3","U+20E4","U+20E5","U+20E6","U+20E7","U+20E8","U+20E9",
  "U+20EA","U+20EB","U+20EC","U+20ED","U+20EE","U+20EF","U+20F0","U+2C7C",
  "U+2C7D","U+2CEF","U+2CF0","U+2CF1","U+2D6F","U+2D7F","U+2DE0","U+2DE1",
  "U+2DE2","U+2DE3","U+2DE4","U+2DE5","U+2DE6","U+2DE7","U+2DE8","U+2DE9",
  "U+2DEA","U+2DEB","U+2DEC","U+2DED","U+2DEE","U+2DEF","U+2DF0","U+2DF1",
  "U+2DF2","U+2DF3","U+2DF4","U+2DF5","U+2DF6","U+2DF7","U+2DF8","U+2DF9",
  "U+2DFA","U+2DFB","U+2DFC","U+2DFD","U+2DFE","U+2DFF","U+2E2F","U+3005",
  "U+302A","U+302B","U+302C","U+302D","U+3031","U+3032","U+3033","U+3034",
  "U+3035","U+303B","U+3099","U+309A","U+309B","U+309C","U+309D","U+309E",
  "U+30FC","U+30FD","U+30FE","U+A015","U+A4F8","U+A4F9","U+A4FA","U+A4FB",
  "U+A4FC","U+A4FD","U+A60C","U+A66F","U+A670","U+A671","U+A672","U+A674",
  "U+A675","U+A676","U+A677","U+A678","U+A679","U+A67A","U+A67B","U+A67C",
  "U+A67D","U+A67F","U+A69C","U+A69D","U+A69E","U+A69F","U+A6F0","U+A6F1",
  "U+A700","U+A701","U+A702","U+A703","U+A704","U+A705","U+A706","U+A707",
  "U+A708","U+A709","U+A70A","U+A70B","U+A70C","U+A70D","U+A70E","U+A70F",
  "U+A710","U+A711","U+A712","U+A713","U+A714","U+A715","U+A716","U+A717",
  "U+A718","U+A719","U+A71A","U+A71B","U+A71C","U+A71D","U+A71E","U+A71F",
  "U+A720","U+A721","U+A770","U+A788","U+A789","U+A78A","U+A7F1","U+A7F2",
  "U+A7F3","U+A7F4","U+A7F8","U+A7F9","U+A802","U+A806","U+A80B","U+A825",
  "U+A826","U+A82C","U+A8C4","U+A8C5","U+A8E0","U+A8E1","U+A8E2","U+A8E3",
  "U+A8E4","U+A8E5","U+A8E6","U+A8E7","U+A8E8","U+A8E9","U+A8EA","U+A8EB",
  "U+A8EC","U+A8ED","U+A8EE","U+A8EF","U+A8F0","U+A8F1","U+A8FF","U+A926",
  "U+A927","U+A928","U+A929","U+A92A","U+A92B","U+A92C","U+A92D","U+A947",
  "U+A948","U+A949","U+A94A","U+A94B","U+A94C","U+A94D","U+A94E","U+A94F",
  "U+A950","U+A951","U+A980","U+A981","U+A982","U+A9B3","U+A9B6","U+A9B7",
  "U+A9B8","U+A9B9","U+A9BC","U+A9BD","U+A9CF","U+A9E5","U+A9E6","U+AA29",
  "U+AA2A","U+AA2B","U+AA2C","U+AA2D","U+AA2E","U+AA31","U+AA32","U+AA35",
  "U+AA36","U+AA43","U+AA4C","U+AA70","U+AA7C","U+AAB0","U+AAB2","U+AAB3",
  "U+AAB4","U+AAB7","U+AAB8","U+AABE","U+AABF","U+AAC1","U+AADD","U+AAEC",
  "U+AAED","U+AAF3","U+AAF4","U+AAF6","U+AB5B","U+AB5C","U+AB5D","U+AB5E",
  "U+AB5F","U+AB69","U+AB6A","U+AB6B","U+ABE5","U+ABE8","U+ABED","U+FB1E",
  "U+FBB2","U+FBB3","U+FBB4","U+FBB5","U+FBB6","U+FBB7","U+FBB8","U+FBB9",
  "U+FBBA","U+FBBB","U+FBBC","U+FBBD","U+FBBE","U+FBBF","U+FBC0","U+FBC1",
  "U+FBC2","U+FE00","U+FE01","U+FE02","U+FE03","U+FE04","U+FE05","U+FE06",
  "U+FE07","U+FE08","U+FE09","U+FE0A","U+FE0B","U+FE0C","U+FE0D","U+FE0E",
  "U+FE0F","U+FE13","U+FE20","U+FE21","U+FE22","U+FE23","U+FE24","U+FE25",
  "U+FE26","U+FE27","U+FE28","U+FE29","U+FE2A","U+FE2B","U+FE2C","U+FE2D",
  "U+FE2E","U+FE2F","U+FE52","U+FE55","U+FEFF","U+FF07","U+FF0E","U+FF1A",
  "U+FF3E","U+FF40","U+FF70","U+FF9E","U+FF9F","U+FFE3","U+FFF9","U+FFFA",
  "U+FFFB","U+101FD","U+102E0","U+10376","U+10377","U+10378","U+10379",
  "U+1037A","U+10780","U+10781","U+10782","U+10783","U+10784","U+10785",
  "U+10787","U+10788","U+10789","U+1078A","U+1078B","U+1078C","U+1078D",
  "U+1078E","U+1078F","U+10790","U+10791","U+10792","U+10793","U+10794",
  "U+10795","U+10796","U+10797","U+10798","U+10799","U+1079A","U+1079B",
  "U+1079C","U+1079D","U+1079E","U+1079F","U+107A0","U+107A1","U+107A2",
  "U+107A3","U+107A4","U+107A5","U+107A6","U+107A7","U+107A8","U+107A9",
  "U+107AA","U+107AB","U+107AC","U+107AD","U+107AE","U+107AF","U+107B0",
  "U+107B2","U+107B3","U+107B4","U+107B5","U+107B6","U+107B7","U+107B8",
  "U+107B9","U+107BA","U+10A01","U+10A02","U+10A03","U+10A05","U+10A06",
  "U+10A0C","U+10A0D","U+10A0E","U+10A0F","U+10A38","U+10A39","U+10A3A",
  "U+10A3F","U+10AE5","U+10AE6","U+10D24","U+10D25","U+10D26","U+10D27",
  "U+10D4E","U+10D69","U+10D6A","U+10D6B","U+10D6C","U+10D6D","U+10D6F",
  "U+10EAB","U+10EAC","U+10EC5","U+10EFA","U+10EFB","U+10EFC","U+10EFD",
  "U+10EFE","U+10EFF","U+10F46","U+10F47","U+10F48","U+10F49","U+10F4A",
  "U+10F4B","U+10F4C","U+10F4D","U+10F4E","U+10F4F","U+10F50","U+10F82",
  "U+10F83","U+10F84","U+10F85","U+11001","U+11038","U+11039","U+1103A",
  "U+1103B","U+1103C","U+1103D","U+1103E","U+1103F","U+11040","U+11041",
  "U+11042","U+11043","U+11044","U+11045","U+11046","U+11070","U+11073",
  "U+11074","U+1107F","U+11080","U+11081","U+110B3","U+110B4","U+110B5",
  "U+110B6","U+110B9","U+110BA","U+110BD","U+110C2","U+110CD","U+11100",
  "U+11101","U+11102","U+11127","U+11128","U+11129","U+1112A","U+1112B",
  "U+1112D","U+1112E","U+1112F","U+11130","U+11131","U+11132","U+11133",
  "U+11134","U+11173","U+11180","U+11181","U+111B6","U+111B7","U+111B8",
  "U+111B9","U+111BA","U+111BB","U+111BC","U+111BD","U+111BE","U+111C9",
  "U+111CA","U+111CB","U+111CC","U+111CF","U+1122F","U+11230","U+11231",
  "U+11234","U+11236","U+11237","U+1123E","U+11241","U+112DF","U+112E3",
  "U+112E4","U+112E5","U+112E6","U+112E7","U+112E8","U+112E9","U+112EA",
  "U+11300","U+11301","U+1133B","U+1133C","U+11340","U+11366","U+11367",
  "U+11368","U+11369","U+1136A","U+1136B","U+1136C","U+11370","U+11371",
  "U+11372","U+11373","U+11374","U+113BB","U+113BC","U+113BD","U+113BE",
  "U+113BF","U+113C0","U+113CE","U+113D0","U+113D2","U+113E1","U+113E2",
  "U+11438","U+11439","U+1143A","U+1143B","U+1143C","U+1143D","U+1143E",
  "U+1143F","U+11442","U+11443","U+11444","U+11446","U+1145E","U+114B3",
  "U+114B4","U+114B5","U+114B6","U+114B7","U+114B8","U+114BA","U+114BF",
  "U+114C0","U+114C2","U+114C3","U+115B2","U+115B3","U+115B4","U+115B5",
  "U+115BC","U+115BD","U+115BF","U+115C0","U+115DC","U+115DD","U+11633",
  "U+11634","U+11635","U+11636","U+11637","U+11638","U+11639","U+1163A",
  "U+1163D","U+1163F","U+11640","U+116AB","U+116AD","U+116B0","U+116B1",
  "U+116B2","U+116B3","U+116B4","U+116B5","U+116B7","U+1171D","U+1171F",
  "U+11722","U+11723","U+11724","U+11725","U+11727","U+11728","U+11729",
  "U+1172A","U+1172B","U+1182F","U+11830","U+11831","U+11832","U+11833",
  "U+11834","U+11835","U+11836","U+11837","U+11839","U+1183A","U+1193B",
  "U+1193C","U+1193E","U+11943","U+119D4","U+119D5","U+119D6","U+119D7",
  "U+119DA","U+119DB","U+119E0","U+11A01","U+11A02","U+11A03","U+11A04",
  "U+11A05","U+11A06","U+11A07","U+11A08","U+11A09","U+11A0A","U+11A33",
  "U+11A34","U+11A35","U+11A36","U+11A37","U+11A38","U+11A3B","U+11A3C",
  "U+11A3D","U+11A3E","U+11A47","U+11A51","U+11A52","U+11A53","U+11A54",
  "U+11A55","U+11A56","U+11A59","U+11A5A","U+11A5B","U+11A8A","U+11A8B",
  "U+11A8C","U+11A8D","U+11A8E","U+11A8F","U+11A90","U+11A91","U+11A92",
  "U+11A93","U+11A94","U+11A95","U+11A96","U+11A98","U+11A99","U+11B60",
  "U+11B62","U+11B63","U+11B64","U+11B66","U+11C30","U+11C31","U+11C32",
  "U+11C33","U+11C34","U+11C35","U+11C36","U+11C38","U+11C39","U+11C3A",
  "U+11C3B","U+11C3C","U+11C3D","U+11C3F","U+11C92","U+11C93","U+11C94",
  "U+11C95","U+11C96","U+11C97","U+11C98","U+11C99","U+11C9A","U+11C9B",
  "U+11C9C","U+11C9D","U+11C9E","U+11C9F","U+11CA0","U+11CA1","U+11CA2",
  "U+11CA3","U+11CA4","U+11CA5","U+11CA6","U+11CA7","U+11CAA","U+11CAB",
  "U+11CAC","U+11CAD","U+11CAE","U+11CAF","U+11CB0","U+11CB2","U+11CB3",
  "U+11CB5","U+11CB6","U+11D31","U+11D32","U+11D33","U+11D34","U+11D35",
  "U+11D36","U+11D3A","U+11D3C","U+11D3D","U+11D3F","U+11D40","U+11D41",
  "U+11D42","U+11D43","U+11D44","U+11D45","U+11D47","U+11D90","U+11D91",
  "U+11D95","U+11D97","U+11DD9","U+11EF3","U+11EF4","U+11F00","U+11F01",
  "U+11F36","U+11F37","U+11F38","U+11F39","U+11F3A","U+11F40","U+11F42",
  "U+11F5A","U+13430","U+13431","U+13432","U+13433","U+13434","U+13435",
  "U+13436","U+13437","U+13438","U+13439","U+1343A","U+1343B","U+1343C",
  "U+1343D","U+1343E","U+1343F","U+13440","U+13447","U+13448","U+13449",
  "U+1344A","U+1344B","U+1344C","U+1344D","U+1344E","U+1344F","U+13450",
  "U+13451","U+13452","U+13453","U+13454","U+13455","U+1611E","U+1611F",
  "U+16120","U+16121","U+16122","U+16123","U+16124","U+16125","U+16126",
  "U+16127","U+16128","U+16129","U+1612D","U+1612E","U+1612F","U+16AF0",
  "U+16AF1","U+16AF2","U+16AF3","U+16AF4","U+16B30","U+16B31","U+16B32",
  "U+16B33","U+16B34","U+16B35","U+16B36","U+16B40","U+16B41","U+16B42",
  "U+16B43","U+16D40","U+16D41","U+16D42","U+16D6B","U+16D6C","U+16F4F",
  "U+16F8F","U+16F90","U+16F91","U+16F92","U+16F93","U+16F94","U+16F95",
  "U+16F96","U+16F97","U+16F98","U+16F99","U+16F9A","U+16F9B","U+16F9C",
  "U+16F9D","U+16F9E","U+16F9F","U+16FE0","U+16FE1","U+16FE3","U+16FE4",
  "U+16FF2","U+16FF3","U+1AFF0","U+1AFF1","U+1AFF2","U+1AFF3","U+1AFF5",
  "U+1AFF6","U+1AFF7","U+1AFF8","U+1AFF9","U+1AFFA","U+1AFFB","U+1AFFD",
  "U+1AFFE","U+1BC9D","U+1BC9E","U+1BCA0","U+1BCA1","U+1BCA2","U+1BCA3",
  "U+1CF00","U+1CF01","U+1CF02","U+1CF03","U+1CF04","U+1CF05","U+1CF06",
  "U+1CF07","U+1CF08","U+1CF09","U+1CF0A","U+1CF0B","U+1CF0C","U+1CF0D",
  "U+1CF0E","U+1CF0F","U+1CF10","U+1CF11","U+1CF12","U+1CF13","U+1CF14",
  "U+1CF15","U+1CF16","U+1CF17","U+1CF18","U+1CF19","U+1CF1A","U+1CF1B",
  "U+1CF1C","U+1CF1D","U+1CF1E","U+1CF1F","U+1CF20","U+1CF21","U+1CF22",
  "U+1CF23","U+1CF24","U+1CF25","U+1CF26","U+1CF27","U+1CF28","U+1CF29",
  "U+1CF2A","U+1CF2B","U+1CF2C","U+1CF2D","U+1CF30","U+1CF31","U+1CF32",
  "U+1CF33","U+1CF34","U+1CF35","U+1CF36","U+1CF37","U+1CF38","U+1CF39",
  "U+1CF3A","U+1CF3B","U+1CF3C","U+1CF3D","U+1CF3E","U+1CF3F","U+1CF40",
  "U+1CF41","U+1CF42","U+1CF43","U+1CF44","U+1CF45","U+1CF46","U+1D167",
  "U+1D168","U+1D169","U+1D173","U+1D174","U+1D175","U+1D176","U+1D177",
  "U+1D178","U+1D179","U+1D17A","U+1D17B","U+1D17C","U+1D17D","U+1D17E",
  "U+1D17F","U+1D180","U+1D181","U+1D182","U+1D185","U+1D186","U+1D187",
  "U+1D188","U+1D189","U+1D18A","U+1D18B","U+1D1AA","U+1D1AB","U+1D1AC",
  "U+1D1AD","U+1D242","U+1D243","U+1D244","U+1DA00","U+1DA01","U+1DA02",
  "U+1DA03","U+1DA04","U+1DA05","U+1DA06","U+1DA07","U+1DA08","U+1DA09",
  "U+1DA0A","U+1DA0B","U+1DA0C","U+1DA0D","U+1DA0E","U+1DA0F","U+1DA10",
  "U+1DA11","U+1DA12","U+1DA13","U+1DA14","U+1DA15","U+1DA16","U+1DA17",
  "U+1DA18","U+1DA19","U+1DA1A","U+1DA1B","U+1DA1C","U+1DA1D","U+1DA1E",
  "U+1DA1F","U+1DA20","U+1DA21","U+1DA22","U+1DA23","U+1DA24","U+1DA25",
  "U+1DA26","U+1DA27","U+1DA28","U+1DA29","U+1DA2A","U+1DA2B","U+1DA2C",
  "U+1DA2D","U+1DA2E","U+1DA2F","U+1DA30","U+1DA31","U+1DA32","U+1DA33",
  "U+1DA34","U+1DA35","U+1DA36","U+1DA3B","U+1DA3C","U+1DA3D","U+1DA3E",
  "U+1DA3F","U+1DA40","U+1DA41","U+1DA42","U+1DA43","U+1DA44","U+1DA45",
  "U+1DA46","U+1DA47","U+1DA48","U+1DA49","U+1DA4A","U+1DA4B","U+1DA4C",
  "U+1DA4D","U+1DA4E","U+1DA4F","U+1DA50","U+1DA51","U+1DA52","U+1DA53",
  "U+1DA54","U+1DA55","U+1DA56","U+1DA57","U+1DA58","U+1DA59","U+1DA5A",
  "U+1DA5B","U+1DA5C","U+1DA5D","U+1DA5E","U+1DA5F","U+1DA60","U+1DA61",
  "U+1DA62","U+1DA63","U+1DA64","U+1DA65","U+1DA66","U+1DA67","U+1DA68",
  "U+1DA69","U+1DA6A","U+1DA6B","U+1DA6C","U+1DA75","U+1DA84","U+1DA9B",
  "U+1DA9C","U+1DA9D","U+1DA9E","U+1DA9F","U+1DAA1","U+1DAA2","U+1DAA3",
  "U+1DAA4","U+1DAA5","U+1DAA6","U+1DAA7","U+1DAA8","U+1DAA9","U+1DAAA",
  "U+1DAAB","U+1DAAC","U+1DAAD","U+1DAAE","U+1DAAF","U+1E000","U+1E001",
  "U+1E002","U+1E003","U+1E004","U+1E005","U+1E006","U+1E008","U+1E009",
  "U+1E00A","U+1E00B","U+1E00C","U+1E00D","U+1E00E","U+1E00F","U+1E010",
  "U+1E011","U+1E012","U+1E013","U+1E014","U+1E015","U+1E016","U+1E017",
  "U+1E018","U+1E01B","U+1E01C","U+1E01D","U+1E01E","U+1E01F","U+1E020",
  "U+1E021","U+1E023","U+1E024","U+1E026","U+1E027","U+1E028","U+1E029",
  "U+1E02A","U+1E030","U+1E031","U+1E032","U+1E033","U+1E034","U+1E035",
  "U+1E036","U+1E037","U+1E038","U+1E039","U+1E03A","U+1E03B","U+1E03C",
  "U+1E03D","U+1E03E","U+1E03F","U+1E040","U+1E041","U+1E042","U+1E043",
  "U+1E044","U+1E045","U+1E046","U+1E047","U+1E048","U+1E049","U+1E04A",
  "U+1E04B","U+1E04C","U+1E04D","U+1E04E","U+1E04F","U+1E050","U+1E051",
  "U+1E052","U+1E053","U+1E054","U+1E055","U+1E056","U+1E057","U+1E058",
  "U+1E059","U+1E05A","U+1E05B","U+1E05C","U+1E05D","U+1E05E","U+1E05F",
  "U+1E060","U+1E061","U+1E062","U+1E063","U+1E064","U+1E065","U+1E066",
  "U+1E067","U+1E068","U+1E069","U+1E06A","U+1E06B","U+1E06C","U+1E06D",
  "U+1E08F","U+1E130","U+1E131","U+1E132","U+1E133","U+1E134","U+1E135",
  "U+1E136","U+1E137","U+1E138","U+1E139","U+1E13A","U+1E13B","U+1E13C",
  "U+1E13D","U+1E2AE","U+1E2EC","U+1E2ED","U+1E2EE","U+1E2EF","U+1E4EB",
  "U+1E4EC","U+1E4ED","U+1E4EE","U+1E4EF","U+1E5EE","U+1E5EF","U+1E6E3",
  "U+1E6E6","U+1E6EE","U+1E6EF","U+1E6F5","U+1E6FF","U+1E8D0","U+1E8D1",
  "U+1E8D2","U+1E8D3","U+1E8D4","U+1E8D5","U+1E8D6","U+1E944","U+1E945",
  "U+1E946","U+1E947","U+1E948","U+1E949","U+1E94A","U+1E94B","U+1F3FB",
  "U+1F3FC","U+1F3FD","U+1F3FE","U+1F3FF","U+E0001","U+E0020","U+E0021",
  "U+E0022","U+E0023","U+E0024","U+E0025","U+E0026","U+E0027","U+E0028",
  "U+E0029","U+E002A","U+E002B","U+E002C","U+E002D","U+E002E","U+E002F",
  "U+E0030","U+E0031","U+E0032","U+E0033","U+E0034","U+E0035","U+E0036",
  "U+E0037","U+E0038","U+E0039","U+E003A","U+E003B","U+E003C","U+E003D",
  "U+E003E","U+E003F","U+E0040","U+E0041","U+E0042","U+E0043","U+E0044",
  "U+E0045","U+E0046","U+E0047","U+E0048","U+E0049","U+E004A","U+E004B",
  "U+E004C","U+E004D","U+E004E","U+E004F","U+E0050","U+E0051","U+E0052",
  "U+E0053","U+E0054","U+E0055","U+E0056","U+E0057","U+E0058","U+E0059",
  "U+E005A","U+E005B","U+E005C","U+E005D","U+E005E","U+E005F","U+E0060",
  "U+E0061","U+E0062","U+E0063","U+E0064","U+E0065","U+E0066","U+E0067",
  "U+E0068","U+E0069","U+E006A","U+E006B","U+E006C","U+E006D","U+E006E",
  "U+E006F","U+E0070","U+E0071","U+E0072","U+E0073","U+E0074","U+E0075",
  "U+E0076","U+E0077","U+E0078","U+E0079","U+E007A","U+E007B","U+E007C",
  "U+E007D","U+E007E","U+E007F","U+E0100","U+E0101","U+E0102","U+E0103",
  "U+E0104","U+E0105","U+E0106","U+E0107","U+E0108","U+E0109","U+E010A",
  "U+E010B","U+E010C","U+E010D","U+E010E","U+E010F","U+E0110","U+E0111",
  "U+E0112","U+E0113","U+E0114","U+E0115","U+E0116","U+E0117","U+E0118",
  "U+E0119","U+E011A","U+E011B","U+E011C","U+E011D","U+E011E","U+E011F",
  "U+E0120","U+E0121","U+E0122","U+E0123","U+E0124","U+E0125","U+E0126",
  "U+E0127","U+E0128","U+E0129","U+E012A","U+E012B","U+E012C","U+E012D",
  "U+E012E","U+E012F","U+E0130","U+E0131","U+E0132","U+E0133","U+E0134",
  "U+E0135","U+E0136","U+E0137","U+E0138","U+E0139","U+E013A","U+E013B",
  "U+E013C","U+E013D","U+E013E","U+E013F","U+E0140","U+E0141","U+E0142",
  "U+E0143","U+E0144","U+E0145","U+E0146","U+E0147","U+E0148","U+E0149",
  "U+E014A","U+E014B","U+E014C","U+E014D","U+E014E","U+E014F","U+E0150",
  "U+E0151","U+E0152","U+E0153","U+E0154","U+E0155","U+E0156","U+E0157",
  "U+E0158","U+E0159","U+E015A","U+E015B","U+E015C","U+E015D","U+E015E",
  "U+E015F","U+E0160","U+E0161","U+E0162","U+E0163","U+E0164","U+E0165",
  "U+E0166","U+E0167","U+E0168","U+E0169","U+E016A","U+E016B","U+E016C",
  "U+E016D","U+E016E","U+E016F","U+E0170","U+E0171","U+E0172","U+E0173",
  "U+E0174","U+E0175","U+E0176","U+E0177","U+E0178","U+E0179","U+E017A",
  "U+E017B","U+E017C","U+E017D","U+E017E","U+E017F","U+E0180","U+E0181",
  "U+E0182","U+E0183","U+E0184","U+E0185","U+E0186","U+E0187","U+E0188",
  "U+E0189","U+E018A","U+E018B","U+E018C","U+E018D","U+E018E","U+E018F",
  "U+E0190","U+E0191","U+E0192","U+E0193","U+E0194","U+E0195","U+E0196",
  "U+E0197","U+E0198","U+E0199","U+E019A","U+E019B","U+E019C","U+E019D",
  "U+E019E","U+E019F","U+E01A0","U+E01A1","U+E01A2","U+E01A3","U+E01A4",
  "U+E01A5","U+E01A6","U+E01A7","U+E01A8","U+E01A9","U+E01AA","U+E01AB",
  "U+E01AC","U+E01AD","U+E01AE","U+E01AF","U+E01B0","U+E01B1","U+E01B2",
  "U+E01B3","U+E01B4","U+E01B5","U+E01B6","U+E01B7","U+E01B8","U+E01B9",
  "U+E01BA","U+E01BB","U+E01BC","U+E01BD","U+E01BE","U+E01BF","U+E01C0",
  "U+E01C1","U+E01C2","U+E01C3","U+E01C4","U+E01C5","U+E01C6","U+E01C7",
  "U+E01C8","U+E01C9","U+E01CA","U+E01CB","U+E01CC","U+E01CD","U+E01CE",
  "U+E01CF","U+E01D0","U+E01D1","U+E01D2","U+E01D3","U+E01D4","U+E01D5",
  "U+E01D6","U+E01D7","U+E01D8","U+E01D9","U+E01DA","U+E01DB","U+E01DC",
  "U+E01DD","U+E01DE","U+E01DF","U+E01E0","U+E01E1","U+E01E2","U+E01E3",
  "U+E01E4","U+E01E5","U+E01E6","U+E01E7","U+E01E8","U+E01E9","U+E01EA",
  "U+E01EB","U+E01EC","U+E01ED","U+E01EE","U+E01EF"}

\* Iterator::collect::<String>: the concatenation of the pieces
RECURSIVE Concat(_)
Concat(ss) ==
  IF ss = <<>> THEN <<>>
  ELSE IF Len(ss) = 1 THEN ss[1]
  ELSE Concat(SubSeq(ss, 1, Len(ss) \div 2))
         \o Concat(SubSeq(ss, Len(ss) \div 2 + 1, Len(ss)))

\* char::to_lowercase on one character: the characters of its lower case
to_lowercase_char(c) == IF c \in Upper THEN LowerOf[c] ELSE <<c>>

\* str::to_lowercase: every character by char::to_lowercase, except the capital
\* sigma, which becomes the final sigma when a cased character comes before it
\* and none after it, characters that case ignores being skipped
to_lowercase(s) ==
  LET parts ==
        [i \in 1..Len(s) |->
           IF s[i] = "U+03A3"
           THEN LET before == {j \in 1..(i - 1) : s[j] \notin Case_Ignorable}
                    after == {j \in (i + 1)..Len(s) : s[j] \notin Case_Ignorable}
                    final ==
                      /\ before # {}
                      /\ s[CHOOSE j \in before : \A k \in before : k <= j] \in Cased
                      /\ \/ after = {}
                         \/ s[CHOOSE j \in after : \A k \in after : j <= k] \notin Cased
                IN  IF final THEN <<"U+03C2">> ELSE <<"U+03C3">>
           ELSE to_lowercase_char(s[i])]
  IN  IF \A i \in 1..Len(s) : Len(parts[i]) = 1
      THEN [i \in 1..Len(s) |-> parts[i][1]]
      ELSE Concat(parts)

\* str::starts_with at offset i (0-based): s[i..] starts with n
MatchAt(s, i, n) ==
  /\ i + Len(n) <= Len(s)
  /\ \A k \in 1..Len(n) : s[i + k] = n[k]

\* str::contains
contains(s, n) == \E i \in 0..Len(s) : MatchAt(s, i, n)

\* str::starts_with / str::ends_with
starts_with(s, n) == MatchAt(s, 0, n)
ends_with(s, n) == Len(n) <= Len(s) /\ MatchAt(s, Len(s) - Len(n), n)

\* str::find: the 0-based offset of the first occurrence, as an Option
find(s, n) ==
  LET hits == {i \in 0..Len(s) : MatchAt(s, i, n)}
  IN  IF hits = {} THEN <<>>
      ELSE <<CHOOSE i \in hits : \A j \in hits : i <= j>>

\* str::trim_start / trim_end / trim
RECURSIVE trim_start(_)
trim_start(s) ==
  IF s # <<>> /\ Head(s) \in White THEN trim_start(Tail(s)) ELSE s

RECURSIVE trim_end(_)
trim_end(s) ==
  IF s # <<>> /\ s[Len(s)] \in White THEN trim_end(SubSeq(s, 1, Len(s) - 1))
  ELSE s

trim(s) == trim_end(trim_start(s))

\* the longest run of characters of set cs that starts at offset i (0-based)
RECURSIVE RunAt(_, _, _)
RunAt(s, i, cs) ==
  IF i < Len(s) /\ s[i + 1] \in cs THEN <<s[i + 1]>> \o RunAt(s, i + 1, cs)
  ELSE <<>>

DigitValue ==
  [c \in Digits |->
     CASE c = "0" -> 0 [] c = "1" -> 1 [] c = "2" -> 2 [] c = "3" -> 3
       [] c = "4" -> 4 [] c = "5" -> 5 [] c = "6" -> 6 [] c = "7" -> 7
       [] c = "8" -> 8 [] c = "9" -> 9]

AllDigits(s) == \A k \in 1..Len(s) : s[k] \in Digits

\* the value of a string of at most nine digits
RECURSIVE DecimalValue(_)
DecimalValue(s) ==
  IF s = <<>> THEN 0
  ELSE DecimalValue(SubSeq(s, 1, Len(s) - 1)) * 10 + DigitValue[s[Len(s)]]

----------------------------------------------------------------------------
(* The registry: one #[extractor(name = .., tags = [..])] declaration per  *)
(* site extractor, collected by registry_items in registration order.      *)

\* #[extractor(name = "luogu", tags = ["U+6D1B U+8C37"])]
LuoguExtractor ==
  [name |-> <<"l","u","o","g","u">>,
   tags |-> << <<"U+6D1B","U+8C37">> >>]

\* #[extractor(name = "vj", tags = ["vjudge", "Virtual Judge"])]
VjudgeExtractor ==
  [name |-> <<"v","j">>,
   tags |-> << <<"v","j","u","d","g","e">>,
               <<"V","i","r","t","u","a","l"," ","J","u","d","g","e">> >>]

\* #[extractor(name = "xyd", tags = ["xinyoudui", "U+4FE1 U+53CB U+961F"])]
XinyouduiExtractor ==
  [name |-> <<"x","y","d">>,
   tags |-> << <<"x","i","n","y","o","u","d","u","i">>,
               <<"U+4FE1","U+53CB","U+961F">> >>]

\* a faulty variant, which the properties reject: the tag checks without
\* lower-casing the url
RECURSIVE MutTagChecksCaseSensitive(_, _, _)
MutTagChecksCaseSensitive(tags, url, score) ==
  IF tags = <<>> THEN score
  ELSE MutTagChecksCaseSensitive(Tail(tags), url,
         IF contains(url, to_lowercase(Head(tags)))
         THEN score + 10 ELSE score)

\* the body the derive macro generates for rank: 10 for each tag whose
\* lower-cased form occurs in the lower-cased url, checked one after the
\* other, then 20 for the lower-cased name (u32; the sum is at most
\* 10 * Len(tags) + 20, far from the width)
RECURSIVE tag_checks(_, _, _)
tag_checks(tags, url, score) ==
  IF tags = <<>> THEN score
  ELSE tag_checks(Tail(tags), url,
         IF contains(to_lowercase(url), to_lowercase(Head(tags)))
         THEN score + 10 ELSE score)

\* a faulty variant, which the properties reject: the rank with the name
\* counted like a tag
MutRankNameAsTag(name, tags, url) ==
  LET score == tag_checks(tags, url, 0)
  IN  IF contains(to_lowercase(url), to_lowercase(name))
      THEN score + 10 ELSE score

generate_rank_impl(name, tags, url) ==
  LET score == tag_checks(tags, url, 0)
  IN  IF contains(to_lowercase(url), to_lowercase(name))
      THEN score + 20 ELSE score

\* ExtractorRegistryItem.rank_fn
rank_fn(item, url) == generate_rank_impl(item.name, item.tags, url)

\* extractors::registry_items
registry_items == <<LuoguExtractor, VjudgeExtractor, XinyouduiExtractor>>

\* ExtractorFactory::new
ExtractorFactory_new == [extractors |-> registry_items]

\* a faulty variant, which the properties reject: the insertion of an
\* unstable sort: equal scores change places
RECURSIVE MutInsertUnstable(_, _)
MutInsertUnstable(sorted, c) ==
  IF sorted = <<>> THEN <<c>>
  ELSE IF Head(sorted).score <= c.score THEN <<c>> \o sorted
       ELSE <<Head(sorted)>> \o MutInsertUnstable(Tail(sorted), c)

\* Vec::sort_by(|a, b| b.0.cmp(&a.0)): a stable sort, descending by score.
\* An element is placed after every element that does not compare greater.
RECURSIVE sort_insert(_, _)
sort_insert(sorted, c) ==
  IF sorted = <<>> THEN <<c>>
  ELSE IF Head(sorted).score < c.score THEN <<c>> \o sorted
       ELSE <<Head(sorted)>> \o sort_insert(Tail(sorted), c)

RECURSIVE sort_by_score_desc(_)
sort_by_score_desc(cs) ==
  IF cs = <<>> THEN <<>>
  ELSE sort_insert(sort_by_score_desc(SubSeq(cs, 1, Len(cs) - 1)), cs[Len(cs)])

\* Result values.  kind is "Extractor" (Ok of create_extractor), "Ok" (Ok of
\* extract), "NoExtractor", "EmptyContent" or "MissingField"; "None" is the
\* absence of a result.
NoResult ==
  [kind |-> "None", url |-> <<>>, name |-> <<>>, field |-> "",
   partial |-> <<>>, sub |-> <<>>]

Ok_Extractor(name) == [NoResult EXCEPT !.kind = "Extractor", !.name = name]

Err_NoExtractor(url) == [NoResult EXCEPT !.kind = "NoExtractor", !.url = url]

\* ExtractorFactory::create_extractor: the local candidates, after the sort
create_extractor_candidates(factory, url) ==
  sort_by_score_desc([i \in 1..Len(factory.extractors) |->
                        [score |-> rank_fn(factory.extractors[i], url),
                         item |-> factory.extractors[i]]])

\* a faulty variant, which the properties reject: the selection without the
\* check that the highest score is above 0
MutCreateNoZeroCheck(sorted, url) ==
  IF sorted # <<>>
  THEN Ok_Extractor(sorted[1].item.name)
  ELSE Err_NoExtractor(url)

\* ExtractorFactory::create_extractor: what it returns, given the sorted
\* candidates
ExtractorFactory_create_extractor(sorted, url) ==
  IF sorted # <<>> /\ sorted[1].score > 0
  THEN Ok_Extractor(sorted[1].item.name)
  ELSE Err_NoExtractor(url)

----------------------------------------------------------------------------
(* Markup.  A content string is the sequence of its top-level nodes; a     *)
(* node is a text node (tag "#text"), a comment ("#comment"), the doctype  *)
(* ("#doctype") or an element with a tag, a set of class names, attributes *)
(* (a function from attribute name to string) and child nodes.  The text   *)
(* of a text node and the value of an attribute are the characters of the  *)
(* source: "&#32;" is five characters there and one space in the parsed    *)
(* document.  Html::parse_document yields the nodes in document order,     *)
(* each with the index of its parent (0 at top level) and of its last      *)
(* descendant.                                                             *)

NoAttrs == [a \in {} |-> <<>>]

T(txt) == [tag |-> "#text", cls |-> {}, attrs |-> NoAttrs, txt |-> txt,
           kids |-> <<>>]

E(tag, cls, attrs, kids) ==
  [tag |-> tag, cls |-> cls, attrs |-> attrs, txt |-> <<>>, kids |-> kids]
\* the named character references of HTML (html5ever's data::NAMED_ENTITIES),
\* three entries for each: the name as it follows the ampersand, written as
\* one string, and the one or two characters it stands for, "" for no second
NAMED_ENTITIES == <<
  "AElig","U+00C6","","AElig;","U+00C6","","AMP","&","","AMP;","&","",
  "Aacute","U+00C1","","Aacute;","U+00C1","","Abreve;","U+0102","","Acirc",
  "U+00C2","","Acirc;","U+00C2","","Acy;","U+0410","","Afr;","U+1D504","",
  "Agrave","U+00C0","","Agrave;","U+00C0","","Alpha;","U+0391","","Amacr;",
  "U+0100","","And;","U+2A53","","Aogon;","U+0104","","Aopf;","U+1D538","",
  "ApplyFunction;","U+2061","","Aring","U+00C5","","Aring;","U+00C5","",
  "Ascr;","U+1D49C","","Assign;","U+2254","","Atilde","U+00C3","","Atilde;",
  "U+00C3","","Auml","U+00C4","","Auml;","U+00C4","","Backslash;","U+2216","",
  "Barv;","U+2AE7","","Barwed;","U+2306","","Bcy;","U+0411","","Because;",
  "U+2235","","Bernoullis;","U+212C","","Beta;","U+0392","","Bfr;","U+1D505",
  "","Bopf;","U+1D539","","Breve;","U+02D8","","Bscr;","U+212C","","Bumpeq;",
  "U+224E","","CHcy;","U+0427","","COPY","U+00A9","","COPY;","U+00A9","",
  "Cacute;","U+0106","","Cap;","U+22D2","","CapitalDifferentialD;","U+2145",
  "","Cayleys;","U+212D","","Ccaron;","U+010C","","Ccedil","U+00C7","",
  "Ccedil;","U+00C7","","Ccirc;","U+0108","","Cconint;","U+2230","","Cdot;",
  "U+010A","","Cedilla;","U+00B8","","CenterDot;","U+00B7","","Cfr;","U+212D",
  "","Chi;","U+03A7","","CircleDot;","U+2299","","CircleMinus;","U+2296","",
  "CirclePlus;","U+2295","","CircleTimes;","U+2297","",
  "ClockwiseContourIntegral;","U+2232","","CloseCurlyDoubleQuote;","U+201D",
  "","CloseCurlyQuote;","U+2019","","Colon;","U+2237","","Colone;","U+2A74",
  "","Congruent;","U+2261","","Conint;","U+222F","","ContourIntegral;",
  "U+222E","","Copf;","U+2102","","Coproduct;","U+2210","",
  "CounterClockwiseContourIntegral;","U+2233","","Cross;","U+2A2F","","Cscr;",
  "U+1D49E","","Cup;","U+22D3","","CupCap;","U+224D","","DD;","U+2145","",
  "DDotrahd;","U+2911","","DJcy;","U+0402","","DScy;","U+0405","","DZcy;",
  "U+040F","","Dagger;","U+2021","","Darr;","U+21A1","","Dashv;","U+2AE4","",
  "Dcaron;","U+010E","","Dcy;","U+0414","","Del;","U+2207","","Delta;",
  "U+0394","","Dfr;","U+1D507","","DiacriticalAcute;","U+00B4","",
  "DiacriticalDot;","U+02D9","","DiacriticalDoubleAcute;","U+02DD","",
  "DiacriticalGrave;","U+0060","","DiacriticalTilde;","U+02DC","","Diamond;",
  "U+22C4","","DifferentialD;","U+2146","","Dopf;","U+1D53B","","Dot;",
  "U+00A8","","DotDot;","U+20DC","","DotEqual;","U+2250","",
  "DoubleContourIntegral;","U+222F","","DoubleDot;","U+00A8","",
  "DoubleDownArrow;","U+21D3","","DoubleLeftArrow;","U+21D0","",
  "DoubleLeftRightArrow;","U+21D4","","DoubleLeftTee;","U+2AE4","",
  "DoubleLongLeftArrow;","U+27F8","","DoubleLongLeftRightArrow;","U+27FA","",
  "DoubleLongRightArrow;","U+27F9","","DoubleRightArrow;","U+21D2","",
  "DoubleRightTee;","U+22A8","","DoubleUpArrow;","U+21D1","",
  "DoubleUpDownArrow;","U+21D5","","DoubleVerticalBar;","U+2225","",
  "DownArrow;","U+2193","","DownArrowBar;","U+2913","","DownArrowUpArrow;",
  "U+21F5","","DownBreve;","U+0311","","DownLeftRightVector;","U+2950","",
  "DownLeftTeeVector;","U+295E","","DownLeftVector;","U+21BD","",
  "DownLeftVectorBar;","U+2956","","DownRightTeeVector;","U+295F","",
  "DownRightVector;","U+21C1","","DownRightVectorBar;","U+2957","","DownTee;",
  "U+22A4","","DownTeeArrow;","U+21A7","","Downarrow;","U+21D3","","Dscr;",
  "U+1D49F","","Dstrok;","U+0110","","ENG;","U+014A","","ETH","U+00D0","",
  "ETH;","U+00D0","","Eacute","U+00C9","","Eacute;","U+00C9","","Ecaron;",
  "U+011A","","Ecirc","U+00CA","","Ecirc;","U+00CA","","Ecy;","U+042D","",
  "Edot;","U+0116","","Efr;","U+1D508","","Egrave","U+00C8","","Egrave;",
  "U+00C8","","Element;","U+2208","","Emacr;","U+0112","","EmptySmallSquare;",
  "U+25FB","","EmptyVerySmallSquare;","U+25AB","","Eogon;","U+0118","",
  "Eopf;","U+1D53C","","Epsilon;","U+0395","","Equal;","U+2A75","",
  "EqualTilde;","U+2242","","Equilibrium;","U+21CC","","Escr;","U+2130","",
  "Esim;","U+2A73","","Eta;","U+0397","","Euml","U+00CB","","Euml;","U+00CB",
  "","Exists;","U+2203","","ExponentialE;","U+2147","","Fcy;","U+0424","",
  "Ffr;","U+1D509","","FilledSmallSquare;","U+25FC","",
  "FilledVerySmallSquare;","U+25AA","","Fopf;","U+1D53D","","ForAll;",
  "U+2200","","Fouriertrf;","U+2131","","Fscr;","U+2131","","GJcy;","U+0403",
  "","GT",">","","GT;",">","","Gamma;","U+0393","","Gammad;","U+03DC","",
  "Gbreve;","U+011E","","Gcedil;","U+0122","","Gcirc;","U+011C","","Gcy;",
  "U+0413","","Gdot;","U+0120","","Gfr;","U+1D50A","","Gg;","U+22D9","",
  "Gopf;","U+1D53E","","GreaterEqual;","U+2265","","GreaterEqualLess;",
  "U+22DB","","GreaterFullEqual;","U+2267","","GreaterGreater;","U+2AA2","",
  "GreaterLess;","U+2277","","GreaterSlantEqual;","U+2A7E","","GreaterTilde;",
  "U+2273","","Gscr;","U+1D4A2","","Gt;","U+226B","","HARDcy;","U+042A","",
  "Hacek;","U+02C7","","Hat;","^","","Hcirc;","U+0124","","Hfr;","U+210C","",
  "HilbertSpace;","U+210B","","Hopf;","U+210D","","HorizontalLine;","U+2500",
  "","Hscr;","U+210B","","Hstrok;","U+0126","","HumpDownHump;","U+224E","",
  "HumpEqual;","U+224F","","IEcy;","U+0415","","IJlig;","U+0132","","IOcy;",
  "U+0401","","Iacute","U+00CD","","Iacute;","U+00CD","","Icirc","U+00CE","",
  "Icirc;","U+00CE","","Icy;","U+0418","","Idot;","U+0130","","Ifr;","U+2111",
  "","Igrave","U+00CC","","Igrave;","U+00CC","","Im;","U+2111","","Imacr;",
  "U+012A","","ImaginaryI;","U+2148","","Implies;","U+21D2","","Int;",
  "U+222C","","Integral;","U+222B","","Intersection;","U+22C2","",
  "InvisibleComma;","U+2063","","InvisibleTimes;","U+2062","","Iogon;",
  "U+012E","","Iopf;","U+1D540","","Iota;","U+0399","","Iscr;","U+2110","",
  "Itilde;","U+0128","","Iukcy;","U+0406","","Iuml","U+00CF","","Iuml;",
  "U+00CF","","Jcirc;","U+0134","","Jcy;","U+0419","","Jfr;","U+1D50D","",
  "Jopf;","U+1D541","","Jscr;","U+1D4A5","","Jsercy;","U+0408","","Jukcy;",
  "U+0404","","KHcy;","U+0425","","KJcy;","U+040C","","Kappa;","U+039A","",
  "Kcedil;","U+0136","","Kcy;","U+041A","","Kfr;","U+1D50E","","Kopf;",
  "U+1D542","","Kscr;","U+1D4A6","","LJcy;","U+0409","","LT","<","","LT;","<",
  "","Lacute;","U+0139","","Lambda;","U+039B","","Lang;","U+27EA","",
  "Laplacetrf;","U+2112","","Larr;","U+219E","","Lcaron;","U+013D","",
  "Lcedil;","U+013B","","Lcy;","U+041B","","LeftAngleBracket;","U+27E8","",
  "LeftArrow;","U+2190","","LeftArrowBar;","U+21E4","","LeftArrowRightArrow;",
  "U+21C6","","LeftCeiling;","U+2308","","LeftDoubleBracket;","U+27E6","",
  "LeftDownTeeVector;","U+2961","","LeftDownVector;","U+21C3","",
  "LeftDownVectorBar;","U+2959","","LeftFloor;","U+230A","","LeftRightArrow;",
  "U+2194","","LeftRightVector;","U+294E","","LeftTee;","U+22A3","",
  "LeftTeeArrow;","U+21A4","","LeftTeeVector;","U+295A","","LeftTriangle;",
  "U+22B2","","LeftTriangleBar;","U+29CF","","LeftTriangleEqual;","U+22B4","",
  "LeftUpDownVector;","U+2951","","LeftUpTeeVector;","U+2960","",
  "LeftUpVector;","U+21BF","","LeftUpVectorBar;","U+2958","","LeftVector;",
  "U+21BC","","LeftVectorBar;","U+2952","","Leftarrow;","U+21D0","",
  "Leftrightarrow;","U+21D4","","LessEqualGreater;","U+22DA","",
  "LessFullEqual;","U+2266","","LessGreater;","U+2276","","LessLess;",
  "U+2AA1","","LessSlantEqual;","U+2A7D","","LessTilde;","U+2272","","Lfr;",
  "U+1D50F","","Ll;","U+22D8","","Lleftarrow;","U+21DA","","Lmidot;","U+013F",
  "","LongLeftArrow;","U+27F5","","LongLeftRightArrow;","U+27F7","",
  "LongRightArrow;","U+27F6","","Longleftarrow;","U+27F8","",
  "Longleftrightarrow;","U+27FA","","Longrightarrow;","U+27F9","","Lopf;",
  "U+1D543","","LowerLeftArrow;","U+2199","","LowerRightArrow;","U+2198","",
  "Lscr;","U+2112","","Lsh;","U+21B0","","Lstrok;","U+0141","","Lt;","U+226A",
  "","Map;","U+2905","","Mcy;","U+041C","","MediumSpace;","U+205F","",
  "Mellintrf;","U+2133","","Mfr;","U+1D510","","MinusPlus;","U+2213","",
  "Mopf;","U+1D544","","Mscr;","U+2133","","Mu;","U+039C","","NJcy;","U+040A",
  "","Nacute;","U+0143","","Ncaron;","U+0147","","Ncedil;","U+0145","","Ncy;",
  "U+041D","","NegativeMediumSpace;","U+200B","","NegativeThickSpace;",
  "U+200B","","NegativeThinSpace;","U+200B","","NegativeVeryThinSpace;",
  "U+200B","","NestedGreaterGreater;","U+226B","","NestedLessLess;","U+226A",
  "","NewLine;","\n","","Nfr;","U+1D511","","NoBreak;","U+2060","",
  "NonBreakingSpace;","U+00A0","","Nopf;","U+2115","","Not;","U+2AEC","",
  "NotCongruent;","U+2262","","NotCupCap;","U+226D","",
  "NotDoubleVerticalBar;","U+2226","","NotElement;","U+2209","","NotEqual;",
  "U+2260","","NotEqualTilde;","U+2242","U+0338","NotExists;","U+2204","",
  "NotGreater;","U+226F","","NotGreaterEqual;","U+2271","",
  "NotGreaterFullEqual;","U+2267","U+0338","NotGreaterGreater;","U+226B",
  "U+0338","NotGreaterLess;","U+2279","","NotGreaterSlantEqual;","U+2A7E",
  "U+0338","NotGreaterTilde;","U+2275","","NotHumpDownHump;","U+224E",
  "U+0338","NotHumpEqual;","U+224F","U+0338","NotLeftTriangle;","U+22EA","",
  "NotLeftTriangleBar;","U+29CF","U+0338","NotLeftTriangleEqual;","U+22EC","",
  "NotLess;","U+226E","","NotLessEqual;","U+2270","","NotLessGreater;",
  "U+2278","","NotLessLess;","U+226A","U+0338","NotLessSlantEqual;","U+2A7D",
  "U+0338","NotLessTilde;","U+2274","","NotNestedGreaterGreater;","U+2AA2",
  "U+0338","NotNestedLessLess;","U+2AA1","U+0338","NotPrecedes;","U+2280","",
  "NotPrecedesEqual;","U+2AAF","U+0338","NotPrecedesSlantEqual;","U+22E0","",
  "NotReverseElement;","U+220C","","NotRightTriangle;","U+22EB","",
  "NotRightTriangleBar;","U+29D0","U+0338","NotRightTriangleEqual;","U+22ED",
  "","NotSquareSubset;","U+228F","U+0338","NotSquareSubsetEqual;","U+22E2","",
  "NotSquareSuperset;","U+2290","U+0338","NotSquareSupersetEqual;","U+22E3",
  "","NotSubset;","U+2282","U+20D2","NotSubsetEqual;","U+2288","",
  "NotSucceeds;","U+2281","","NotSucceedsEqual;","U+2AB0","U+0338",
  "NotSucceedsSlantEqual;","U+22E1","","NotSucceedsTilde;","U+227F","U+0338",
  "NotSuperset;","U+2283","U+20D2","NotSupersetEqual;","U+2289","",
  "NotTilde;","U+2241","","NotTildeEqual;","U+2244","","NotTildeFullEqual;",
  "U+2247","","NotTildeTilde;","U+2249","","NotVerticalBar;","U+2224","",
  "Nscr;","U+1D4A9","","Ntilde","U+00D1","","Ntilde;","U+00D1","","Nu;",
  "U+039D","","OElig;","U+0152","","Oacute","U+00D3","","Oacute;","U+00D3","",
  "Ocirc","U+00D4","","Ocirc;","U+00D4","","Ocy;","U+041E","","Odblac;",
  "U+0150","","Ofr;","U+1D512","","Ograve","U+00D2","","Ograve;","U+00D2","",
  "Omacr;","U+014C","","Omega;","U+03A9","","Omicron;","U+039F","","Oopf;",
  "U+1D546","","OpenCurlyDoubleQuote;","U+201C","","OpenCurlyQuote;","U+2018",
  "","Or;","U+2A54","","Oscr;","U+1D4AA","","Oslash","U+00D8","","Oslash;",
  "U+00D8","","Otilde","U+00D5","","Otilde;","U+00D5","","Otimes;","U+2A37",
  "","Ouml","U+00D6","","Ouml;","U+00D6","","OverBar;","U+203E","",
  "OverBrace;","U+23DE","","OverBracket;","U+23B4","","OverParenthesis;",
  "U+23DC","","PartialD;","U+2202","","Pcy;","U+041F","","Pfr;","U+1D513","",
  "Phi;","U+03A6","","Pi;","U+03A0","","PlusMinus;","U+00B1","",
  "Poincareplane;","U+210C","","Popf;","U+2119","","Pr;","U+2ABB","",
  "Precedes;","U+227A","","PrecedesEqual;","U+2AAF","","PrecedesSlantEqual;",
  "U+227C","","PrecedesTilde;","U+227E","","Prime;","U+2033","","Product;",
  "U+220F","","Proportion;","U+2237","","Proportional;","U+221D","","Pscr;",
  "U+1D4AB","","Psi;","U+03A8","","QUOT","\"","","QUOT;","\"","","Qfr;",
  "U+1D514","","Qopf;","U+211A","","Qscr;","U+1D4AC","","RBarr;","U+2910","",
  "REG","U+00AE","","REG;","U+00AE","","Racute;","U+0154","","Rang;","U+27EB",
  "","Rarr;","U+21A0","","Rarrtl;","U+2916","","Rcaron;","U+0158","",
  "Rcedil;","U+0156","","Rcy;","U+0420","","Re;","U+211C","",
  "ReverseElement;","U+220B","","ReverseEquilibrium;","U+21CB","",
  "ReverseUpEquilibrium;","U+296F","","Rfr;","U+211C","","Rho;","U+03A1","",
  "RightAngleBracket;","U+27E9","","RightArrow;","U+2192","","RightArrowBar;",
  "U+21E5","","RightArrowLeftArrow;","U+21C4","","RightCeiling;","U+2309","",
  "RightDoubleBracket;","U+27E7","","RightDownTeeVector;","U+295D","",
  "RightDownVector;","U+21C2","","RightDownVectorBar;","U+2955","",
  "RightFloor;","U+230B","","RightTee;","U+22A2","","RightTeeArrow;","U+21A6",
  "","RightTeeVector;","U+295B","","RightTriangle;","U+22B3","",
  "RightTriangleBar;","U+29D0","","RightTriangleEqual;","U+22B5","",
  "RightUpDownVector;","U+294F","","RightUpTeeVector;","U+295C","",
  "RightUpVector;","U+21BE","","RightUpVectorBar;","U+2954","","RightVector;",
  "U+21C0","","RightVectorBar;","U+2953","","Rightarrow;","U+21D2","","Ropf;",
  "U+211D","","RoundImplies;","U+2970","","Rrightarrow;","U+21DB","","Rscr;",
  "U+211B","","Rsh;","U+21B1","","RuleDelayed;","U+29F4","","SHCHcy;",
  "U+0429","","SHcy;","U+0428","","SOFTcy;","U+042C","","Sacute;","U+015A","",
  "Sc;","U+2ABC","","Scaron;","U+0160","","Scedil;","U+015E","","Scirc;",
  "U+015C","","Scy;","U+0421","","Sfr;","U+1D516","","ShortDownArrow;",
  "U+2193","","ShortLeftArrow;","U+2190","","ShortRightArrow;","U+2192","",
  "ShortUpArrow;","U+2191","","Sigma;","U+03A3","","SmallCircle;","U+2218","",
  "Sopf;","U+1D54A","","Sqrt;","U+221A","","Square;","U+25A1","",
  "SquareIntersection;","U+2293","","SquareSubset;","U+228F","",
  "SquareSubsetEqual;","U+2291","","SquareSuperset;","U+2290","",
  "SquareSupersetEqual;","U+2292","","SquareUnion;","U+2294","","Sscr;",
  "U+1D4AE","","Star;","U+22C6","","Sub;","U+22D0","","Subset;","U+22D0","",
  "SubsetEqual;","U+2286","","Succeeds;","U+227B","","SucceedsEqual;",
  "U+2AB0","","SucceedsSlantEqual;","U+227D","","SucceedsTilde;","U+227F","",
  "SuchThat;","U+220B","","Sum;","U+2211","","Sup;","U+22D1","","Superset;",
  "U+2283","","SupersetEqual;","U+2287","","Supset;","U+22D1","","THORN",
  "U+00DE","","THORN;","U+00DE","","TRADE;","U+2122","","TSHcy;","U+040B","",
  "TScy;","U+0426","","Tab;","\t","","Tau;","U+03A4","","Tcaron;","U+0164","",
  "Tcedil;","U+0162","","Tcy;","U+0422","","Tfr;","U+1D517","","Therefore;",
  "U+2234","","Theta;","U+0398","","ThickSpace;","U+205F","U+200A",
  "ThinSpace;","U+2009","","Tilde;","U+223C","","TildeEqual;","U+2243","",
  "TildeFullEqual;","U+2245","","TildeTilde;","U+2248","","Topf;","U+1D54B",
  "","TripleDot;","U+20DB","","Tscr;","U+1D4AF","","Tstrok;","U+0166","",
  "Uacute","U+00DA","","Uacute;","U+00DA","","Uarr;","U+219F","","Uarrocir;",
  "U+2949","","Ubrcy;","U+040E","","Ubreve;","U+016C","","Ucirc","U+00DB","",
  "Ucirc;","U+00DB","","Ucy;","U+0423","","Udblac;","U+0170","","Ufr;",
  "U+1D518","","Ugrave","U+00D9","","Ugrave;","U+00D9","","Umacr;","U+016A",
  "","UnderBar;","_","","UnderBrace;","U+23DF","","UnderBracket;","U+23B5","",
  "UnderParenthesis;","U+23DD","","Union;","U+22C3","","UnionPlus;","U+228E",
  "","Uogon;","U+0172","","Uopf;","U+1D54C","","UpArrow;","U+2191","",
  "UpArrowBar;","U+2912","","UpArrowDownArrow;","U+21C5","","UpDownArrow;",
  "U+2195","","UpEquilibrium;","U+296E","","UpTee;","U+22A5","","UpTeeArrow;",
  "U+21A5","","Uparrow;","U+21D1","","Updownarrow;","U+21D5","",
  "UpperLeftArrow;","U+2196","","UpperRightArrow;","U+2197","","Upsi;",
  "U+03D2","","Upsilon;","U+03A5","","Uring;","U+016E","","Uscr;","U+1D4B0",
  "","Utilde;","U+0168","","Uuml","U+00DC","","Uuml;","U+00DC","","VDash;",
  "U+22AB","","Vbar;","U+2AEB","","Vcy;","U+0412","","Vdash;","U+22A9","",
  "Vdashl;","U+2AE6","","Vee;","U+22C1","","Verbar;","U+2016","","Vert;",
  "U+2016","","VerticalBar;","U+2223","","VerticalLine;","|","",
  "VerticalSeparator;","U+2758","","VerticalTilde;","U+2240","",
  "VeryThinSpace;","U+200A","","Vfr;","U+1D519","","Vopf;","U+1D54D","",
  "Vscr;","U+1D4B1","","Vvdash;","U+22AA","","Wcirc;","U+0174","","Wedge;",
  "U+22C0","","Wfr;","U+1D51A","","Wopf;","U+1D54E","","Wscr;","U+1D4B2","",
  "Xfr;","U+1D51B","","Xi;","U+039E","","Xopf;","U+1D54F","","Xscr;",
  "U+1D4B3","","YAcy;","U+042F","","YIcy;","U+0407","","YUcy;","U+042E","",
  "Yacute","U+00DD","","Yacute;","U+00DD","","Ycirc;","U+0176","","Ycy;",
  "U+042B","","Yfr;","U+1D51C","","Yopf;","U+1D550","","Yscr;","U+1D4B4","",
  "Yuml;","U+0178","","ZHcy;","U+0416","","Zacute;","U+0179","","Zcaron;",
  "U+017D","","Zcy;","U+0417","","Zdot;","U+017B","","ZeroWidthSpace;",
  "U+200B","","Zeta;","U+0396","","Zfr;","U+2128","","Zopf;","U+2124","",
  "Zscr;","U+1D4B5","","aacute","U+00E1","","aacute;","U+00E1","","abreve;",
  "U+0103","","ac;","U+223E","","acE;","U+223E","U+0333","acd;","U+223F","",
  "acirc","U+00E2","","acirc;","U+00E2","","acute","U+00B4","","acute;",
  "U+00B4","","acy;","U+0430","","aelig","U+00E6","","aelig;","U+00E6","",
  "af;","U+2061","","afr;","U+1D51E","","agrave","U+00E0","","agrave;",
  "U+00E0","","alefsym;","U+2135","","aleph;","U+2135","","alpha;","U+03B1",
  "","amacr;","U+0101","","amalg;","U+2A3F","","amp","&","","amp;","&","",
  "and;","U+2227","","andand;","U+2A55","","andd;","U+2A5C","","andslope;",
  "U+2A58","","andv;","U+2A5A","","ang;","U+2220","","ange;","U+29A4","",
  "angle;","U+2220","","angmsd;","U+2221","","angmsdaa;","U+29A8","",
  "angmsdab;","U+29A9","","angmsdac;","U+29AA","","angmsdad;","U+29AB","",
  "angmsdae;","U+29AC","","angmsdaf;","U+29AD","","angmsdag;","U+29AE","",
  "angmsdah;","U+29AF","","angrt;","U+221F","","angrtvb;","U+22BE","",
  "angrtvbd;","U+299D","","angsph;","U+2222","","angst;","U+00C5","",
  "angzarr;","U+237C","","aogon;","U+0105","","aopf;","U+1D552","","ap;",
  "U+2248","","apE;","U+2A70","","apacir;","U+2A6F","","ape;","U+224A","",
  "apid;","U+224B","","apos;","'","","approx;","U+2248","","approxeq;",
  "U+224A","","aring","U+00E5","","aring;","U+00E5","","ascr;","U+1D4B6","",
  "ast;","*","","asymp;","U+2248","","asympeq;","U+224D","","atilde","U+00E3",
  "","atilde;","U+00E3","","auml","U+00E4","","auml;","U+00E4","","awconint;",
  "U+2233","","awint;","U+2A11","","bNot;","U+2AED","","backcong;","U+224C",
  "","backepsilon;","U+03F6","","backprime;","U+2035","","backsim;","U+223D",
  "","backsimeq;","U+22CD","","barvee;","U+22BD","","barwed;","U+2305","",
  "barwedge;","U+2305","","bbrk;","U+23B5","","bbrktbrk;","U+23B6","",
  "bcong;","U+224C","","bcy;","U+0431","","bdquo;","U+201E","","becaus;",
  "U+2235","","because;","U+2235","","bemptyv;","U+29B0","","bepsi;","U+03F6",
  "","bernou;","U+212C","","beta;","U+03B2","","beth;","U+2136","","between;",
  "U+226C","","bfr;","U+1D51F","","bigcap;","U+22C2","","bigcirc;","U+25EF",
  "","bigcup;","U+22C3","","bigodot;","U+2A00","","bigoplus;","U+2A01","",
  "bigotimes;","U+2A02","","bigsqcup;","U+2A06","","bigstar;","U+2605","",
  "bigtriangledown;","U+25BD","","bigtriangleup;","U+25B3","","biguplus;",
  "U+2A04","","bigvee;","U+22C1","","bigwedge;","U+22C0","","bkarow;",
  "U+290D","","blacklozenge;","U+29EB","","blacksquare;","U+25AA","",
  "blacktriangle;","U+25B4","","blacktriangledown;","U+25BE","",
  "blacktriangleleft;","U+25C2","","blacktriangleright;","U+25B8","","blank;",
  "U+2423","","blk12;","U+2592","","blk14;","U+2591","","blk34;","U+2593","",
  "block;","U+2588","","bne;","=","U+20E5","bnequiv;","U+2261","U+20E5",
  "bnot;","U+2310","","bopf;","U+1D553","","bot;","U+22A5","","bottom;",
  "U+22A5","","bowtie;","U+22C8","","boxDL;","U+2557","","boxDR;","U+2554","",
  "boxDl;","U+2556","","boxDr;","U+2553","","boxH;","U+2550","","boxHD;",
  "U+2566","","boxHU;","U+2569","","boxHd;","U+2564","","boxHu;","U+2567","",
  "boxUL;","U+255D","","boxUR;","U+255A","","boxUl;","U+255C","","boxUr;",
  "U+2559","","boxV;","U+2551","","boxVH;","U+256C","","boxVL;","U+2563","",
  "boxVR;","U+2560","","boxVh;","U+256B","","boxVl;","U+2562","","boxVr;",
  "U+255F","","boxbox;","U+29C9","","boxdL;","U+2555","","boxdR;","U+2552","",
  "boxdl;","U+2510","","boxdr;","U+250C","","boxh;","U+2500","","boxhD;",
  "U+2565","","boxhU;","U+2568","","boxhd;","U+252C","","boxhu;","U+2534","",
  "boxminus;","U+229F","","boxplus;","U+229E","","boxtimes;","U+22A0","",
  "boxuL;","U+255B","","boxuR;","U+2558","","boxul;","U+2518","","boxur;",
  "U+2514","","boxv;","U+2502","","boxvH;","U+256A","","boxvL;","U+2561","",
  "boxvR;","U+255E","","boxvh;","U+253C","","boxvl;","U+2524","","boxvr;",
  "U+251C","","bprime;","U+2035","","breve;","U+02D8","","brvbar","U+00A6","",
  "brvbar;","U+00A6","","bscr;","U+1D4B7","","bsemi;","U+204F","","bsim;",
  "U+223D","","bsime;","U+22CD","","bsol;","\\","","bsolb;","U+29C5","",
  "bsolhsub;","U+27C8","","bull;","U+2022","","bullet;","U+2022","","bump;",
  "U+224E","","bumpE;","U+2AAE","","bumpe;","U+224F","","bumpeq;","U+224F","",
  "cacute;","U+0107","","cap;","U+2229","","capand;","U+2A44","","capbrcup;",
  "U+2A49","","capcap;","U+2A4B","","capcup;","U+2A47","","capdot;","U+2A40",
  "","caps;","U+2229","U+FE00","caret;","U+2041","","caron;","U+02C7","",
  "ccaps;","U+2A4D","","ccaron;","U+010D","","ccedil","U+00E7","","ccedil;",
  "U+00E7","","ccirc;","U+0109","","ccups;","U+2A4C","","ccupssm;","U+2A50",
  "","cdot;","U+010B","","cedil","U+00B8","","cedil;","U+00B8","","cemptyv;",
  "U+29B2","","cent","U+00A2","","cent;","U+00A2","","centerdot;","U+00B7","",
  "cfr;","U+1D520","","chcy;","U+0447","","check;","U+2713","","checkmark;",
  "U+2713","","chi;","U+03C7","","cir;","U+25CB","","cirE;","U+29C3","",
  "circ;","U+02C6","","circeq;","U+2257","","circlearrowleft;","U+21BA","",
  "circlearrowright;","U+21BB","","circledR;","U+00AE","","circledS;",
  "U+24C8","","circledast;","U+229B","","circledcirc;","U+229A","",
  "circleddash;","U+229D","","cire;","U+2257","","cirfnint;","U+2A10","",
  "cirmid;","U+2AEF","","cirscir;","U+29C2","","clubs;","U+2663","",
  "clubsuit;","U+2663","","colon;",":","","colone;","U+2254","","coloneq;",
  "U+2254","","comma;",",","","commat;","@","","comp;","U+2201","","compfn;",
  "U+2218","","complement;","U+2201","","complexes;","U+2102","","cong;",
  "U+2245","","congdot;","U+2A6D","","conint;","U+222E","","copf;","U+1D554",
  "","coprod;","U+2210","","copy","U+00A9","","copy;","U+00A9","","copysr;",
  "U+2117","","crarr;","U+21B5","","cross;","U+2717","","cscr;","U+1D4B8","",
  "csub;","U+2ACF","","csube;","U+2AD1","","csup;","U+2AD0","","csupe;",
  "U+2AD2","","ctdot;","U+22EF","","cudarrl;","U+2938","","cudarrr;","U+2935",
  "","cuepr;","U+22DE","","cuesc;","U+22DF","","cularr;","U+21B6","",
  "cularrp;","U+293D","","cup;","U+222A","","cupbrcap;","U+2A48","","cupcap;",
  "U+2A46","","cupcup;","U+2A4A","","cupdot;","U+228D","","cupor;","U+2A45",
  "","cups;","U+222A","U+FE00","curarr;","U+21B7","","curarrm;","U+293C","",
  "curlyeqprec;","U+22DE","","curlyeqsucc;","U+22DF","","curlyvee;","U+22CE",
  "","curlywedge;","U+22CF","","curren","U+00A4","","curren;","U+00A4","",
  "curvearrowleft;","U+21B6","","curvearrowright;","U+21B7","","cuvee;",
  "U+22CE","","cuwed;","U+22CF","","cwconint;","U+2232","","cwint;","U+2231",
  "","cylcty;","U+232D","","dArr;","U+21D3","","dHar;","U+2965","","dagger;",
  "U+2020","","daleth;","U+2138","","darr;","U+2193","","dash;","U+2010","",
  "dashv;","U+22A3","","dbkarow;","U+290F","","dblac;","U+02DD","","dcaron;",
  "U+010F","","dcy;","U+0434","","dd;","U+2146","","ddagger;","U+2021","",
  "ddarr;","U+21CA","","ddotseq;","U+2A77","","deg","U+00B0","","deg;",
  "U+00B0","","delta;","U+03B4","","demptyv;","U+29B1","","dfisht;","U+297F",
  "","dfr;","U+1D521","","dharl;","U+21C3","","dharr;","U+21C2","","diam;",
  "U+22C4","","diamond;","U+22C4","","diamondsuit;","U+2666","","diams;",
  "U+2666","","die;","U+00A8","","digamma;","U+03DD","","disin;","U+22F2","",
  "div;","U+00F7","","divide","U+00F7","","divide;","U+00F7","",
  "divideontimes;","U+22C7","","divonx;","U+22C7","","djcy;","U+0452","",
  "dlcorn;","U+231E","","dlcrop;","U+230D","","dollar;","$","","dopf;",
  "U+1D555","","dot;","U+02D9","","doteq;","U+2250","","doteqdot;","U+2251",
  "","dotminus;","U+2238","","dotplus;","U+2214","","dotsquare;","U+22A1","",
  "doublebarwedge;","U+2306","","downarrow;","U+2193","","downdownarrows;",
  "U+21CA","","downharpoonleft;","U+21C3","","downharpoonright;","U+21C2","",
  "drbkarow;","U+2910","","drcorn;","U+231F","","drcrop;","U+230C","","dscr;",
  "U+1D4B9","","dscy;","U+0455","","dsol;","U+29F6","","dstrok;","U+0111","",
  "dtdot;","U+22F1","","dtri;","U+25BF","","dtrif;","U+25BE","","duarr;",
  "U+21F5","","duhar;","U+296F","","dwangle;","U+29A6","","dzcy;","U+045F","",
  "dzigrarr;","U+27FF","","eDDot;","U+2A77","","eDot;","U+2251","","eacute",
  "U+00E9","","eacute;","U+00E9","","easter;","U+2A6E","","ecaron;","U+011B",
  "","ecir;","U+2256","","ecirc","U+00EA","","ecirc;","U+00EA","","ecolon;",
  "U+2255","","ecy;","U+044D","","edot;","U+0117","","ee;","U+2147","",
  "efDot;","U+2252","","efr;","U+1D522","","eg;","U+2A9A","","egrave",
  "U+00E8","","egrave;","U+00E8","","egs;","U+2A96","","egsdot;","U+2A98","",
  "el;","U+2A99","","elinters;","U+23E7","","ell;","U+2113","","els;",
  "U+2A95","","elsdot;","U+2A97","","emacr;","U+0113","","empty;","U+2205","",
  "emptyset;","U+2205","","emptyv;","U+2205","","emsp13;","U+2004","",
  "emsp14;","U+2005","","emsp;","U+2003","","eng;","U+014B","","ensp;",
  "U+2002","","eogon;","U+0119","","eopf;","U+1D556","","epar;","U+22D5","",
  "eparsl;","U+29E3","","eplus;","U+2A71","","epsi;","U+03B5","","epsilon;",
  "U+03B5","","epsiv;","U+03F5","","eqcirc;","U+2256","","eqcolon;","U+2255",
  "","eqsim;","U+2242","","eqslantgtr;","U+2A96","","eqslantless;","U+2A95",
  "","equals;","=","","equest;","U+225F","","equiv;","U+2261","","equivDD;",
  "U+2A78","","eqvparsl;","U+29E5","","erDot;","U+2253","","erarr;","U+2971",
  "","escr;","U+212F","","esdot;","U+2250","","esim;","U+2242","","eta;",
  "U+03B7","","eth","U+00F0","","eth;","U+00F0","","euml","U+00EB","","euml;",
  "U+00EB","","euro;","U+20AC","","excl;","!","","exist;","U+2203","",
  "expectation;","U+2130","","exponentiale;","U+2147","","fallingdotseq;",
  "U+2252","","fcy;","U+0444","","female;","U+2640","","ffilig;","U+FB03","",
  "fflig;","U+FB00","","ffllig;","U+FB04","","ffr;","U+1D523","","filig;",
  "U+FB01","","fjlig;","f","j","flat;","U+266D","","fllig;","U+FB02","",
  "fltns;","U+25B1","","fnof;","U+0192","","fopf;","U+1D557","","forall;",
  "U+2200","","fork;","U+22D4","","forkv;","U+2AD9","","fpartint;","U+2A0D",
  "","frac12","U+00BD","","frac12;","U+00BD","","frac13;","U+2153","",
  "frac14","U+00BC","","frac14;","U+00BC","","frac15;","U+2155","","frac16;",
  "U+2159","","frac18;","U+215B","","frac23;","U+2154","","frac25;","U+2156",
  "","frac34","U+00BE","","frac34;","U+00BE","","frac35;","U+2157","",
  "frac38;","U+215C","","frac45;","U+2158","","frac56;","U+215A","","frac58;",
  "U+215D","","frac78;","U+215E","","frasl;","U+2044","","frown;","U+2322","",
  "fscr;","U+1D4BB","","gE;","U+2267","","gEl;","U+2A8C","","gacute;",
  "U+01F5","","gamma;","U+03B3","","gammad;","U+03DD","","gap;","U+2A86","",
  "gbreve;","U+011F","","gcirc;","U+011D","","gcy;","U+0433","","gdot;",
  "U+0121","","ge;","U+2265","","gel;","U+22DB","","geq;","U+2265","","geqq;",
  "U+2267","","geqslant;","U+2A7E","","ges;","U+2A7E","","gescc;","U+2AA9","",
  "gesdot;","U+2A80","","gesdoto;","U+2A82","","gesdotol;","U+2A84","",
  "gesl;","U+22DB","U+FE00","gesles;","U+2A94","","gfr;","U+1D524","","gg;",
  "U+226B","","ggg;","U+22D9","","gimel;","U+2137","","gjcy;","U+0453","",
  "gl;","U+2277","","glE;","U+2A92","","gla;","U+2AA5","","glj;","U+2AA4","",
  "gnE;","U+2269","","gnap;","U+2A8A","","gnapprox;","U+2A8A","","gne;",
  "U+2A88","","gneq;","U+2A88","","gneqq;","U+2269","","gnsim;","U+22E7","",
  "gopf;","U+1D558","","grave;","U+0060","","gscr;","U+210A","","gsim;",
  "U+2273","","gsime;","U+2A8E","","gsiml;","U+2A90","","gt",">","","gt;",">",
  "","gtcc;","U+2AA7","","gtcir;","U+2A7A","","gtdot;","U+22D7","","gtlPar;",
  "U+2995","","gtquest;","U+2A7C","","gtrapprox;","U+2A86","","gtrarr;",
  "U+2978","","gtrdot;","U+22D7","","gtreqless;","U+22DB","","gtreqqless;",
  "U+2A8C","","gtrless;","U+2277","","gtrsim;","U+2273","","gvertneqq;",
  "U+2269","U+FE00","gvnE;","U+2269","U+FE00","hArr;","U+21D4","","hairsp;",
  "U+200A","","half;","U+00BD","","hamilt;","U+210B","","hardcy;","U+044A","",
  "harr;","U+2194","","harrcir;","U+2948","","harrw;","U+21AD","","hbar;",
  "U+210F","","hcirc;","U+0125","","hearts;","U+2665","","heartsuit;",
  "U+2665","","hellip;","U+2026","","hercon;","U+22B9","","hfr;","U+1D525","",
  "hksearow;","U+2925","","hkswarow;","U+2926","","hoarr;","U+21FF","",
  "homtht;","U+223B","","hookleftarrow;","U+21A9","","hookrightarrow;",
  "U+21AA","","hopf;","U+1D559","","horbar;","U+2015","","hscr;","U+1D4BD","",
  "hslash;","U+210F","","hstrok;","U+0127","","hybull;","U+2043","","hyphen;",
  "U+2010","","iacute","U+00ED","","iacute;","U+00ED","","ic;","U+2063","",
  "icirc","U+00EE","","icirc;","U+00EE","","icy;","U+0438","","iecy;",
  "U+0435","","iexcl","U+00A1","","iexcl;","U+00A1","","iff;","U+21D4","",
  "ifr;","U+1D526","","igrave","U+00EC","","igrave;","U+00EC","","ii;",
  "U+2148","","iiiint;","U+2A0C","","iiint;","U+222D","","iinfin;","U+29DC",
  "","iiota;","U+2129","","ijlig;","U+0133","","imacr;","U+012B","","image;",
  "U+2111","","imagline;","U+2110","","imagpart;","U+2111","","imath;",
  "U+0131","","imof;","U+22B7","","imped;","U+01B5","","in;","U+2208","",
  "incare;","U+2105","","infin;","U+221E","","infintie;","U+29DD","",
  "inodot;","U+0131","","int;","U+222B","","intcal;","U+22BA","","integers;",
  "U+2124","","intercal;","U+22BA","","intlarhk;","U+2A17","","intprod;",
  "U+2A3C","","iocy;","U+0451","","iogon;","U+012F","","iopf;","U+1D55A","",
  "iota;","U+03B9","","iprod;","U+2A3C","","iquest","U+00BF","","iquest;",
  "U+00BF","","iscr;","U+1D4BE","","isin;","U+2208","","isinE;","U+22F9","",
  "isindot;","U+22F5","","isins;","U+22F4","","isinsv;","U+22F3","","isinv;",
  "U+2208","","it;","U+2062","","itilde;","U+0129","","iukcy;","U+0456","",
  "iuml","U+00EF","","iuml;","U+00EF","","jcirc;","U+0135","","jcy;","U+0439",
  "","jfr;","U+1D527","","jmath;","U+0237","","jopf;","U+1D55B","","jscr;",
  "U+1D4BF","","jsercy;","U+0458","","jukcy;","U+0454","","kappa;","U+03BA",
  "","kappav;","U+03F0","","kcedil;","U+0137","","kcy;","U+043A","","kfr;",
  "U+1D528","","kgreen;","U+0138","","khcy;","U+0445","","kjcy;","U+045C","",
  "kopf;","U+1D55C","","kscr;","U+1D4C0","","lAarr;","U+21DA","","lArr;",
  "U+21D0","","lAtail;","U+291B","","lBarr;","U+290E","","lE;","U+2266","",
  "lEg;","U+2A8B","","lHar;","U+2962","","lacute;","U+013A","","laemptyv;",
  "U+29B4","","lagran;","U+2112","","lambda;","U+03BB","","lang;","U+27E8","",
  "langd;","U+2991","","langle;","U+27E8","","lap;","U+2A85","","laquo",
  "U+00AB","","laquo;","U+00AB","","larr;","U+2190","","larrb;","U+21E4","",
  "larrbfs;","U+291F","","larrfs;","U+291D","","larrhk;","U+21A9","",
  "larrlp;","U+21AB","","larrpl;","U+2939","","larrsim;","U+2973","",
  "larrtl;","U+21A2","","lat;","U+2AAB","","latail;","U+2919","","late;",
  "U+2AAD","","lates;","U+2AAD","U+FE00","lbarr;","U+290C","","lbbrk;",
  "U+2772","","lbrace;","{","","lbrack;","[","","lbrke;","U+298B","",
  "lbrksld;","U+298F","","lbrkslu;","U+298D","","lcaron;","U+013E","",
  "lcedil;","U+013C","","lceil;","U+2308","","lcub;","{","","lcy;","U+043B",
  "","ldca;","U+2936","","ldquo;","U+201C","","ldquor;","U+201E","",
  "ldrdhar;","U+2967","","ldrushar;","U+294B","","ldsh;","U+21B2","","le;",
  "U+2264","","leftarrow;","U+2190","","leftarrowtail;","U+21A2","",
  "leftharpoondown;","U+21BD","","leftharpoonup;","U+21BC","",
  "leftleftarrows;","U+21C7","","leftrightarrow;","U+2194","",
  "leftrightarrows;","U+21C6","","leftrightharpoons;","U+21CB","",
  "leftrightsquigarrow;","U+21AD","","leftthreetimes;","U+22CB","","leg;",
  "U+22DA","","leq;","U+2264","","leqq;","U+2266","","leqslant;","U+2A7D","",
  "les;","U+2A7D","","lescc;","U+2AA8","","lesdot;","U+2A7F","","lesdoto;",
  "U+2A81","","lesdotor;","U+2A83","","lesg;","U+22DA","U+FE00","lesges;",
  "U+2A93","","lessapprox;","U+2A85","","lessdot;","U+22D6","","lesseqgtr;",
  "U+22DA","","lesseqqgtr;","U+2A8B","","lessgtr;","U+2276","","lesssim;",
  "U+2272","","lfisht;","U+297C","","lfloor;","U+230A","","lfr;","U+1D529","",
  "lg;","U+2276","","lgE;","U+2A91","","lhard;","U+21BD","","lharu;","U+21BC",
  "","lharul;","U+296A","","lhblk;","U+2584","","ljcy;","U+0459","","ll;",
  "U+226A","","llarr;","U+21C7","","llcorner;","U+231E","","llhard;","U+296B",
  "","lltri;","U+25FA","","lmidot;","U+0140","","lmoust;","U+23B0","",
  "lmoustache;","U+23B0","","lnE;","U+2268","","lnap;","U+2A89","",
  "lnapprox;","U+2A89","","lne;","U+2A87","","lneq;","U+2A87","","lneqq;",
  "U+2268","","lnsim;","U+22E6","","loang;","U+27EC","","loarr;","U+21FD","",
  "lobrk;","U+27E6","","longleftarrow;","U+27F5","","longleftrightarrow;",
  "U+27F7","","longmapsto;","U+27FC","","longrightarrow;","U+27F6","",
  "looparrowleft;","U+21AB","","looparrowright;","U+21AC","","lopar;",
  "U+2985","","lopf;","U+1D55D","","loplus;","U+2A2D","","lotimes;","U+2A34",
  "","lowast;","U+2217","","lowbar;","_","","loz;","U+25CA","","lozenge;",
  "U+25CA","","lozf;","U+29EB","","lpar;","(","","lparlt;","U+2993","",
  "lrarr;","U+21C6","","lrcorner;","U+231F","","lrhar;","U+21CB","","lrhard;",
  "U+296D","","lrm;","U+200E","","lrtri;","U+22BF","","lsaquo;","U+2039","",
  "lscr;","U+1D4C1","","lsh;","U+21B0","","lsim;","U+2272","","lsime;",
  "U+2A8D","","lsimg;","U+2A8F","","lsqb;","[","","lsquo;","U+2018","",
  "lsquor;","U+201A","","lstrok;","U+0142","","lt","<","","lt;","<","",
  "ltcc;","U+2AA6","","ltcir;","U+2A79","","ltdot;","U+22D6","","lthree;",
  "U+22CB","","ltimes;","U+22C9","","ltlarr;","U+2976","","ltquest;","U+2A7B",
  "","ltrPar;","U+2996","","ltri;","U+25C3","","ltrie;","U+22B4","","ltrif;",
  "U+25C2","","lurdshar;","U+294A","","luruhar;","U+2966","","lvertneqq;",
  "U+2268","U+FE00","lvnE;","U+2268","U+FE00","mDDot;","U+223A","","macr",
  "U+00AF","","macr;","U+00AF","","male;","U+2642","","malt;","U+2720","",
  "maltese;","U+2720","","map;","U+21A6","","mapsto;","U+21A6","",
  "mapstodown;","U+21A7","","mapstoleft;","U+21A4","","mapstoup;","U+21A5","",
  "marker;","U+25AE","","mcomma;","U+2A29","","mcy;","U+043C","","mdash;",
  "U+2014","","measuredangle;","U+2221","","mfr;","U+1D52A","","mho;",
  "U+2127","","micro","U+00B5","","micro;","U+00B5","","mid;","U+2223","",
  "midast;","*","","midcir;","U+2AF0","","middot","U+00B7","","middot;",
  "U+00B7","","minus;","U+2212","","minusb;","U+229F","","minusd;","U+2238",
  "","minusdu;","U+2A2A","","mlcp;","U+2ADB","","mldr;","U+2026","","mnplus;",
  "U+2213","","models;","U+22A7","","mopf;","U+1D55E","","mp;","U+2213","",
  "mscr;","U+1D4C2","","mstpos;","U+223E","","mu;","U+03BC","","multimap;",
  "U+22B8","","mumap;","U+22B8","","nGg;","U+22D9","U+0338","nGt;","U+226B",
  "U+20D2","nGtv;","U+226B","U+0338","nLeftarrow;","U+21CD","",
  "nLeftrightarrow;","U+21CE","","nLl;","U+22D8","U+0338","nLt;","U+226A",
  "U+20D2","nLtv;","U+226A","U+0338","nRightarrow;","U+21CF","","nVDash;",
  "U+22AF","","nVdash;","U+22AE","","nabla;","U+2207","","nacute;","U+0144",
  "","nang;","U+2220","U+20D2","nap;","U+2249","","napE;","U+2A70","U+0338",
  "napid;","U+224B","U+0338","napos;","U+0149","","napprox;","U+2249","",
  "natur;","U+266E","","natural;","U+266E","","naturals;","U+2115","","nbsp",
  "U+00A0","","nbsp;","U+00A0","","nbump;","U+224E","U+0338","nbumpe;",
  "U+224F","U+0338","ncap;","U+2A43","","ncaron;","U+0148","","ncedil;",
  "U+0146","","ncong;","U+2247","","ncongdot;","U+2A6D","U+0338","ncup;",
  "U+2A42","","ncy;","U+043D","","ndash;","U+2013","","ne;","U+2260","",
  "neArr;","U+21D7","","nearhk;","U+2924","","nearr;","U+2197","","nearrow;",
  "U+2197","","nedot;","U+2250","U+0338","nequiv;","U+2262","","nesear;",
  "U+2928","","nesim;","U+2242","U+0338","nexist;","U+2204","","nexists;",
  "U+2204","","nfr;","U+1D52B","","ngE;","U+2267","U+0338","nge;","U+2271","",
  "ngeq;","U+2271","","ngeqq;","U+2267","U+0338","ngeqslant;","U+2A7E",
  "U+0338","nges;","U+2A7E","U+0338","ngsim;","U+2275","","ngt;","U+226F","",
  "ngtr;","U+226F","","nhArr;","U+21CE","","nharr;","U+21AE","","nhpar;",
  "U+2AF2","","ni;","U+220B","","nis;","U+22FC","","nisd;","U+22FA","","niv;",
  "U+220B","","njcy;","U+045A","","nlArr;","U+21CD","","nlE;","U+2266",
  "U+0338","nlarr;","U+219A","","nldr;","U+2025","","nle;","U+2270","",
  "nleftarrow;","U+219A","","nleftrightarrow;","U+21AE","","nleq;","U+2270",
  "","nleqq;","U+2266","U+0338","nleqslant;","U+2A7D","U+0338","nles;",
  "U+2A7D","U+0338","nless;","U+226E","","nlsim;","U+2274","","nlt;","U+226E",
  "","nltri;","U+22EA","","nltrie;","U+22EC","","nmid;","U+2224","","nopf;",
  "U+1D55F","","not","U+00AC","","not;","U+00AC","","notin;","U+2209","",
  "notinE;","U+22F9","U+0338","notindot;","U+22F5","U+0338","notinva;",
  "U+2209","","notinvb;","U+22F7","","notinvc;","U+22F6","","notni;","U+220C",
  "","notniva;","U+220C","","notnivb;","U+22FE","","notnivc;","U+22FD","",
  "npar;","U+2226","","nparallel;","U+2226","","nparsl;","U+2AFD","U+20E5",
  "npart;","U+2202","U+0338","npolint;","U+2A14","","npr;","U+2280","",
  "nprcue;","U+22E0","","npre;","U+2AAF","U+0338","nprec;","U+2280","",
  "npreceq;","U+2AAF","U+0338","nrArr;","U+21CF","","nrarr;","U+219B","",
  "nrarrc;","U+2933","U+0338","nrarrw;","U+219D","U+0338","nrightarrow;",
  "U+219B","","nrtri;","U+22EB","","nrtrie;","U+22ED","","nsc;","U+2281","",
  "nsccue;","U+22E1","","nsce;","U+2AB0","U+0338","nscr;","U+1D4C3","",
  "nshortmid;","U+2224","","nshortparallel;","U+2226","","nsim;","U+2241","",
  "nsime;","U+2244","","nsimeq;","U+2244","","nsmid;","U+2224","","nspar;",
  "U+2226","","nsqsube;","U+22E2","","nsqsupe;","U+22E3","","nsub;","U+2284",
  "","nsubE;","U+2AC5","U+0338","nsube;","U+2288","","nsubset;","U+2282",
  "U+20D2","nsubseteq;","U+2288","","nsubseteqq;","U+2AC5","U+0338","nsucc;",
  "U+2281","","nsucceq;","U+2AB0","U+0338","nsup;","U+2285","","nsupE;",
  "U+2AC6","U+0338","nsupe;","U+2289","","nsupset;","U+2283","U+20D2",
  "nsupseteq;","U+2289","","nsupseteqq;","U+2AC6","U+0338","ntgl;","U+2279",
  "","ntilde","U+00F1","","ntilde;","U+00F1","","ntlg;","U+2278","",
  "ntriangleleft;","U+22EA","","ntrianglelefteq;","U+22EC","",
  "ntriangleright;","U+22EB","","ntrianglerighteq;","U+22ED","","nu;",
  "U+03BD","","num;","#","","numero;","U+2116","","numsp;","U+2007","",
  "nvDash;","U+22AD","","nvHarr;","U+2904","","nvap;","U+224D","U+20D2",
  "nvdash;","U+22AC","","nvge;","U+2265","U+20D2","nvgt;",">","U+20D2",
  "nvinfin;","U+29DE","","nvlArr;","U+2902","","nvle;","U+2264","U+20D2",
  "nvlt;","<","U+20D2","nvltrie;","U+22B4","U+20D2","nvrArr;","U+2903","",
  "nvrtrie;","U+22B5","U+20D2","nvsim;","U+223C","U+20D2","nwArr;","U+21D6",
  "","nwarhk;","U+2923","","nwarr;","U+2196","","nwarrow;","U+2196","",
  "nwnear;","U+2927","","oS;","U+24C8","","oacute","U+00F3","","oacute;",
  "U+00F3","","oast;","U+229B","","ocir;","U+229A","","ocirc","U+00F4","",
  "ocirc;","U+00F4","","ocy;","U+043E","","odash;","U+229D","","odblac;",
  "U+0151","","odiv;","U+2A38","","odot;","U+2299","","odsold;","U+29BC","",
  "oelig;","U+0153","","ofcir;","U+29BF","","ofr;","U+1D52C","","ogon;",
  "U+02DB","","ograve","U+00F2","","ograve;","U+00F2","","ogt;","U+29C1","",
  "ohbar;","U+29B5","","ohm;","U+03A9","","oint;","U+222E","","olarr;",
  "U+21BA","","olcir;","U+29BE","","olcross;","U+29BB","","oline;","U+203E",
  "","olt;","U+29C0","","omacr;","U+014D","","omega;","U+03C9","","omicron;",
  "U+03BF","","omid;","U+29B6","","ominus;","U+2296","","oopf;","U+1D560","",
  "opar;","U+29B7","","operp;","U+29B9","","oplus;","U+2295","","or;",
  "U+2228","","orarr;","U+21BB","","ord;","U+2A5D","","order;","U+2134","",
  "orderof;","U+2134","","ordf","U+00AA","","ordf;","U+00AA","","ordm",
  "U+00BA","","ordm;","U+00BA","","origof;","U+22B6","","oror;","U+2A56","",
  "orslope;","U+2A57","","orv;","U+2A5B","","oscr;","U+2134","","oslash",
  "U+00F8","","oslash;","U+00F8","","osol;","U+2298","","otilde","U+00F5","",
  "otilde;","U+00F5","","otimes;","U+2297","","otimesas;","U+2A36","","ouml",
  "U+00F6","","ouml;","U+00F6","","ovbar;","U+233D","","par;","U+2225","",
  "para","U+00B6","","para;","U+00B6","","parallel;","U+2225","","parsim;",
  "U+2AF3","","parsl;","U+2AFD","","part;","U+2202","","pcy;","U+043F","",
  "percnt;","%","","period;",".","","permil;","U+2030","","perp;","U+22A5","",
  "pertenk;","U+2031","","pfr;","U+1D52D","","phi;","U+03C6","","phiv;",
  "U+03D5","","phmmat;","U+2133","","phone;","U+260E","","pi;","U+03C0","",
  "pitchfork;","U+22D4","","piv;","U+03D6","","planck;","U+210F","",
  "planckh;","U+210E","","plankv;","U+210F","","plus;","+","","plusacir;",
  "U+2A23","","plusb;","U+229E","","pluscir;","U+2A22","","plusdo;","U+2214",
  "","plusdu;","U+2A25","","pluse;","U+2A72","","plusmn","U+00B1","",
  "plusmn;","U+00B1","","plussim;","U+2A26","","plustwo;","U+2A27","","pm;",
  "U+00B1","","pointint;","U+2A15","","popf;","U+1D561","","pound","U+00A3",
  "","pound;","U+00A3","","pr;","U+227A","","prE;","U+2AB3","","prap;",
  "U+2AB7","","prcue;","U+227C","","pre;","U+2AAF","","prec;","U+227A","",
  "precapprox;","U+2AB7","","preccurlyeq;","U+227C","","preceq;","U+2AAF","",
  "precnapprox;","U+2AB9","","precneqq;","U+2AB5","","precnsim;","U+22E8","",
  "precsim;","U+227E","","prime;","U+2032","","primes;","U+2119","","prnE;",
  "U+2AB5","","prnap;","U+2AB9","","prnsim;","U+22E8","","prod;","U+220F","",
  "profalar;","U+232E","","profline;","U+2312","","profsurf;","U+2313","",
  "prop;","U+221D","","propto;","U+221D","","prsim;","U+227E","","prurel;",
  "U+22B0","","pscr;","U+1D4C5","","psi;","U+03C8","","puncsp;","U+2008","",
  "qfr;","U+1D52E","","qint;","U+2A0C","","qopf;","U+1D562","","qprime;",
  "U+2057","","qscr;","U+1D4C6","","quaternions;","U+210D","","quatint;",
  "U+2A16","","quest;","?","","questeq;","U+225F","","quot","\"","","quot;",
  "\"","","rAarr;","U+21DB","","rArr;","U+21D2","","rAtail;","U+291C","",
  "rBarr;","U+290F","","rHar;","U+2964","","race;","U+223D","U+0331",
  "racute;","U+0155","","radic;","U+221A","","raemptyv;","U+29B3","","rang;",
  "U+27E9","","rangd;","U+2992","","range;","U+29A5","","rangle;","U+27E9","",
  "raquo","U+00BB","","raquo;","U+00BB","","rarr;","U+2192","","rarrap;",
  "U+2975","","rarrb;","U+21E5","","rarrbfs;","U+2920","","rarrc;","U+2933",
  "","rarrfs;","U+291E","","rarrhk;","U+21AA","","rarrlp;","U+21AC","",
  "rarrpl;","U+2945","","rarrsim;","U+2974","","rarrtl;","U+21A3","","rarrw;",
  "U+219D","","ratail;","U+291A","","ratio;","U+2236","","rationals;",
  "U+211A","","rbarr;","U+290D","","rbbrk;","U+2773","","rbrace;","}","",
  "rbrack;","]","","rbrke;","U+298C","","rbrksld;","U+298E","","rbrkslu;",
  "U+2990","","rcaron;","U+0159","","rcedil;","U+0157","","rceil;","U+2309",
  "","rcub;","}","","rcy;","U+0440","","rdca;","U+2937","","rdldhar;",
  "U+2969","","rdquo;","U+201D","","rdquor;","U+201D","","rdsh;","U+21B3","",
  "real;","U+211C","","realine;","U+211B","","realpart;","U+211C","","reals;",
  "U+211D","","rect;","U+25AD","","reg","U+00AE","","reg;","U+00AE","",
  "rfisht;","U+297D","","rfloor;","U+230B","","rfr;","U+1D52F","","rhard;",
  "U+21C1","","rharu;","U+21C0","","rharul;","U+296C","","rho;","U+03C1","",
  "rhov;","U+03F1","","rightarrow;","U+2192","","rightarrowtail;","U+21A3","",
  "rightharpoondown;","U+21C1","","rightharpoonup;","U+21C0","",
  "rightleftarrows;","U+21C4","","rightleftharpoons;","U+21CC","",
  "rightrightarrows;","U+21C9","","rightsquigarrow;","U+219D","",
  "rightthreetimes;","U+22CC","","ring;","U+02DA","","risingdotseq;","U+2253",
  "","rlarr;","U+21C4","","rlhar;","U+21CC","","rlm;","U+200F","","rmoust;",
  "U+23B1","","rmoustache;","U+23B1","","rnmid;","U+2AEE","","roang;",
  "U+27ED","","roarr;","U+21FE","","robrk;","U+27E7","","ropar;","U+2986","",
  "ropf;","U+1D563","","roplus;","U+2A2E","","rotimes;","U+2A35","","rpar;",
  ")","","rpargt;","U+2994","","rppolint;","U+2A12","","rrarr;","U+21C9","",
  "rsaquo;","U+203A","","rscr;","U+1D4C7","","rsh;","U+21B1","","rsqb;","]",
  "","rsquo;","U+2019","","rsquor;","U+2019","","rthree;","U+22CC","",
  "rtimes;","U+22CA","","rtri;","U+25B9","","rtrie;","U+22B5","","rtrif;",
  "U+25B8","","rtriltri;","U+29CE","","ruluhar;","U+2968","","rx;","U+211E",
  "","sacute;","U+015B","","sbquo;","U+201A","","sc;","U+227B","","scE;",
  "U+2AB4","","scap;","U+2AB8","","scaron;","U+0161","","sccue;","U+227D","",
  "sce;","U+2AB0","","scedil;","U+015F","","scirc;","U+015D","","scnE;",
  "U+2AB6","","scnap;","U+2ABA","","scnsim;","U+22E9","","scpolint;","U+2A13",
  "","scsim;","U+227F","","scy;","U+0441","","sdot;","U+22C5","","sdotb;",
  "U+22A1","","sdote;","U+2A66","","seArr;","U+21D8","","searhk;","U+2925","",
  "searr;","U+2198","","searrow;","U+2198","","sect","U+00A7","","sect;",
  "U+00A7","","semi;",";","","seswar;","U+2929","","setminus;","U+2216","",
  "setmn;","U+2216","","sext;","U+2736","","sfr;","U+1D530","","sfrown;",
  "U+2322","","sharp;","U+266F","","shchcy;","U+0449","","shcy;","U+0448","",
  "shortmid;","U+2223","","shortparallel;","U+2225","","shy","U+00AD","",
  "shy;","U+00AD","","sigma;","U+03C3","","sigmaf;","U+03C2","","sigmav;",
  "U+03C2","","sim;","U+223C","","simdot;","U+2A6A","","sime;","U+2243","",
  "simeq;","U+2243","","simg;","U+2A9E","","simgE;","U+2AA0","","siml;",
  "U+2A9D","","simlE;","U+2A9F","","simne;","U+2246","","simplus;","U+2A24",
  "","simrarr;","U+2972","","slarr;","U+2190","","smallsetminus;","U+2216","",
  "smashp;","U+2A33","","smeparsl;","U+29E4","","smid;","U+2223","","smile;",
  "U+2323","","smt;","U+2AAA","","smte;","U+2AAC","","smtes;","U+2AAC",
  "U+FE00","softcy;","U+044C","","sol;","/","","solb;","U+29C4","","solbar;",
  "U+233F","","sopf;","U+1D564","","spades;","U+2660","","spadesuit;",
  "U+2660","","spar;","U+2225","","sqcap;","U+2293","","sqcaps;","U+2293",
  "U+FE00","sqcup;","U+2294","","sqcups;","U+2294","U+FE00","sqsub;","U+228F",
  "","sqsube;","U+2291","","sqsubset;","U+228F","","sqsubseteq;","U+2291","",
  "sqsup;","U+2290","","sqsupe;","U+2292","","sqsupset;","U+2290","",
  "sqsupseteq;","U+2292","","squ;","U+25A1","","square;","U+25A1","",
  "squarf;","U+25AA","","squf;","U+25AA","","srarr;","U+2192","","sscr;",
  "U+1D4C8","","ssetmn;","U+2216","","ssmile;","U+2323","","sstarf;","U+22C6",
  "","star;","U+2606","","starf;","U+2605","","straightepsilon;","U+03F5","",
  "straightphi;","U+03D5","","strns;","U+00AF","","sub;","U+2282","","subE;",
  "U+2AC5","","subdot;","U+2ABD","","sube;","U+2286","","subedot;","U+2AC3",
  "","submult;","U+2AC1","","subnE;","U+2ACB","","subne;","U+228A","",
  "subplus;","U+2ABF","","subrarr;","U+2979","","subset;","U+2282","",
  "subseteq;","U+2286","","subseteqq;","U+2AC5","","subsetneq;","U+228A","",
  "subsetneqq;","U+2ACB","","subsim;","U+2AC7","","subsub;","U+2AD5","",
  "subsup;","U+2AD3","","succ;","U+227B","","succapprox;","U+2AB8","",
  "succcurlyeq;","U+227D","","succeq;","U+2AB0","","succnapprox;","U+2ABA","",
  "succneqq;","U+2AB6","","succnsim;","U+22E9","","succsim;","U+227F","",
  "sum;","U+2211","","sung;","U+266A","","sup1","U+00B9","","sup1;","U+00B9",
  "","sup2","U+00B2","","sup2;","U+00B2","","sup3","U+00B3","","sup3;",
  "U+00B3","","sup;","U+2283","","supE;","U+2AC6","","supdot;","U+2ABE","",
  "supdsub;","U+2AD8","","supe;","U+2287","","supedot;","U+2AC4","",
  "suphsol;","U+27C9","","suphsub;","U+2AD7","","suplarr;","U+297B","",
  "supmult;","U+2AC2","","supnE;","U+2ACC","","supne;","U+228B","","supplus;",
  "U+2AC0","","supset;","U+2283","","supseteq;","U+2287","","supseteqq;",
  "U+2AC6","","supsetneq;","U+228B","","supsetneqq;","U+2ACC","","supsim;",
  "U+2AC8","","supsub;","U+2AD4","","supsup;","U+2AD6","","swArr;","U+21D9",
  "","swarhk;","U+2926","","swarr;","U+2199","","swarrow;","U+2199","",
  "swnwar;","U+292A","","szlig","U+00DF","","szlig;","U+00DF","","target;",
  "U+2316","","tau;","U+03C4","","tbrk;","U+23B4","","tcaron;","U+0165","",
  "tcedil;","U+0163","","tcy;","U+0442","","tdot;","U+20DB","","telrec;",
  "U+2315","","tfr;","U+1D531","","there4;","U+2234","","therefore;","U+2234",
  "","theta;","U+03B8","","thetasym;","U+03D1","","thetav;","U+03D1","",
  "thickapprox;","U+2248","","thicksim;","U+223C","","thinsp;","U+2009","",
  "thkap;","U+2248","","thksim;","U+223C","","thorn","U+00FE","","thorn;",
  "U+00FE","","tilde;","U+02DC","","times","U+00D7","","times;","U+00D7","",
  "timesb;","U+22A0","","timesbar;","U+2A31","","timesd;","U+2A30","","tint;",
  "U+222D","","toea;","U+2928","","top;","U+22A4","","topbot;","U+2336","",
  "topcir;","U+2AF1","","topf;","U+1D565","","topfork;","U+2ADA","","tosa;",
  "U+2929","","tprime;","U+2034","","trade;","U+2122","","triangle;","U+25B5",
  "","triangledown;","U+25BF","","triangleleft;","U+25C3","",
  "trianglelefteq;","U+22B4","","triangleq;","U+225C","","triangleright;",
  "U+25B9","","trianglerighteq;","U+22B5","","tridot;","U+25EC","","trie;",
  "U+225C","","triminus;","U+2A3A","","triplus;","U+2A39","","trisb;",
  "U+29CD","","tritime;","U+2A3B","","trpezium;","U+23E2","","tscr;",
  "U+1D4C9","","tscy;","U+0446","","tshcy;","U+045B","","tstrok;","U+0167","",
  "twixt;","U+226C","","twoheadleftarrow;","U+219E","","twoheadrightarrow;",
  "U+21A0","","uArr;","U+21D1","","uHar;","U+2963","","uacute","U+00FA","",
  "uacute;","U+00FA","","uarr;","U+2191","","ubrcy;","U+045E","","ubreve;",
  "U+016D","","ucirc","U+00FB","","ucirc;","U+00FB","","ucy;","U+0443","",
  "udarr;","U+21C5","","udblac;","U+0171","","udhar;","U+296E","","ufisht;",
  "U+297E","","ufr;","U+1D532","","ugrave","U+00F9","","ugrave;","U+00F9","",
  "uharl;","U+21BF","","uharr;","U+21BE","","uhblk;","U+2580","","ulcorn;",
  "U+231C","","ulcorner;","U+231C","","ulcrop;","U+230F","","ultri;","U+25F8",
  "","umacr;","U+016B","","uml","U+00A8","","uml;","U+00A8","","uogon;",
  "U+0173","","uopf;","U+1D566","","uparrow;","U+2191","","updownarrow;",
  "U+2195","","upharpoonleft;","U+21BF","","upharpoonright;","U+21BE","",
  "uplus;","U+228E","","upsi;","U+03C5","","upsih;","U+03D2","","upsilon;",
  "U+03C5","","upuparrows;","U+21C8","","urcorn;","U+231D","","urcorner;",
  "U+231D","","urcrop;","U+230E","","uring;","U+016F","","urtri;","U+25F9","",
  "uscr;","U+1D4CA","","utdot;","U+22F0","","utilde;","U+0169","","utri;",
  "U+25B5","","utrif;","U+25B4","","uuarr;","U+21C8","","uuml","U+00FC","",
  "uuml;","U+00FC","","uwangle;","U+29A7","","vArr;","U+21D5","","vBar;",
  "U+2AE8","","vBarv;","U+2AE9","","vDash;","U+22A8","","vangrt;","U+299C","",
  "varepsilon;","U+03F5","","varkappa;","U+03F0","","varnothing;","U+2205","",
  "varphi;","U+03D5","","varpi;","U+03D6","","varpropto;","U+221D","","varr;",
  "U+2195","","varrho;","U+03F1","","varsigma;","U+03C2","","varsubsetneq;",
  "U+228A","U+FE00","varsubsetneqq;","U+2ACB","U+FE00","varsupsetneq;",
  "U+228B","U+FE00","varsupsetneqq;","U+2ACC","U+FE00","vartheta;","U+03D1",
  "","vartriangleleft;","U+22B2","","vartriangleright;","U+22B3","","vcy;",
  "U+0432","","vdash;","U+22A2","","vee;","U+2228","","veebar;","U+22BB","",
  "veeeq;","U+225A","","vellip;","U+22EE","","verbar;","|","","vert;","|","",
  "vfr;","U+1D533","","vltri;","U+22B2","","vnsub;","U+2282","U+20D2",
  "vnsup;","U+2283","U+20D2","vopf;","U+1D567","","vprop;","U+221D","",
  "vrtri;","U+22B3","","vscr;","U+1D4CB","","vsubnE;","U+2ACB","U+FE00",
  "vsubne;","U+228A","U+FE00","vsupnE;","U+2ACC","U+FE00","vsupne;","U+228B",
  "U+FE00","vzigzag;","U+299A","","wcirc;","U+0175","","wedbar;","U+2A5F","",
  "wedge;","U+2227","","wedgeq;","U+2259","","weierp;","U+2118","","wfr;",
  "U+1D534","","wopf;","U+1D568","","wp;","U+2118","","wr;","U+2240","",
  "wreath;","U+2240","","wscr;","U+1D4CC","","xcap;","U+22C2","","xcirc;",
  "U+25EF","","xcup;","U+22C3","","xdtri;","U+25BD","","xfr;","U+1D535","",
  "xhArr;","U+27FA","","xharr;","U+27F7","","xi;","U+03BE","","xlArr;",
  "U+27F8","","xlarr;","U+27F5","","xmap;","U+27FC","","xnis;","U+22FB","",
  "xodot;","U+2A00","","xopf;","U+1D569","","xoplus;","U+2A01","","xotime;",
  "U+2A02","","xrArr;","U+27F9","","xrarr;","U+27F6","","xscr;","U+1D4CD","",
  "xsqcup;","U+2A06","","xuplus;","U+2A04","","xutri;","U+25B3","","xvee;",
  "U+22C1","","xwedge;","U+22C0","","yacute","U+00FD","","yacute;","U+00FD",
  "","yacy;","U+044F","","ycirc;","U+0177","","ycy;","U+044B","","yen",
  "U+00A5","","yen;","U+00A5","","yfr;","U+1D536","","yicy;","U+0457","",
  "yopf;","U+1D56A","","yscr;","U+1D4CE","","yucy;","U+044E","","yuml",
  "U+00FF","","yuml;","U+00FF","","zacute;","U+017A","","zcaron;","U+017E","",
  "zcy;","U+0437","","zdot;","U+017C","","zeetrf;","U+2128","","zeta;",
  "U+03B6","","zfr;","U+1D537","","zhcy;","U+0436","","zigrarr;","U+21DD","",
  "zopf;","U+1D56B","","zscr;","U+1D4CF","","zwj;","U+200D","","zwnj;",
  "U+200C","">>

\* char::from_u32 on a scalar value, the character written as it is here
char_from_u32(n) ==
  LET hex == <<"0","1","2","3","4","5","6","7","8","9","A","B","C","D","E",
               "F">>
      d(k) == hex[((n \div 16 ^ k) % 16) + 1]
      printable == <<
        " ","!","\"","#","$","%","&","'","(",")","*","+",",","-",".","/","0",
        "1","2","3","4","5","6","7","8","9",":",";","<","=",">","?","@","A",
        "B","C","D","E","F","G","H","I","J","K","L","M","N","O","P","Q","R",
        "S","T","U","V","W","X","Y","Z","[","\\","]","^","_","U+0060","a","b",
        "c","d","e","f","g","h","i","j","k","l","m","n","o","p","q","r","s",
        "t","u","v","w","x","y","z","{","|","}","~">>
  IN  IF n = 9 THEN "\t" ELSE IF n = 10 THEN "\n"
      ELSE IF n = 12 THEN "\f" ELSE IF n = 13 THEN "\r"
      ELSE IF n \in 32..126 THEN printable[n - 31]
      ELSE "U+" \o (IF n >= 16 ^ 5 THEN d(5) ELSE "")
                \o (IF n >= 16 ^ 4 THEN d(4) ELSE "")
                \o d(3) \o d(2) \o d(1) \o d(0)

\* the tokenizer of html5ever on character data and on attribute values: a
\* line break of the source becomes "\n", and a character reference becomes
\* the characters it stands for.  A numeric reference is "&#" or "&#x" and
\* digits, a named one the longest name of the table; the semicolon of a
\* numeric reference may be missing, and in an attribute value a name
\* without semicolon is no reference before "=" or a letter or digit.
decode_text(s, in_attr) ==
  LET hexdigits == Digits \cup {"a","b","c","d","e","f",
                                "A","B","C","D","E","F"}
      letters == {"a","b","c","d","e","f","g","h","i","j","k","l","m","n",
                  "o","p","q","r","s","t","u","v","w","x","y","z",
                  "A","B","C","D","E","F","G","H","I","J","K","L","M","N",
                  "O","P","Q","R","S","T","U","V","W","X","Y","Z"}
      hexvalue == [c \in hexdigits |->
                     IF c \in Digits THEN DigitValue[c]
                     ELSE IF c \in {"a","A"} THEN 10
                     ELSE IF c \in {"b","B"} THEN 11
                     ELSE IF c \in {"c","C"} THEN 12
                     ELSE IF c \in {"d","D"} THEN 13
                     ELSE IF c \in {"e","E"} THEN 14 ELSE 15]
      \* data::C1_REPLACEMENTS, for the codes 0x80 to 0x9F
      c1 == <<
        8364,129,8218,402,8222,8230,8224,8225,710,8240,352,8249,338,141,381,
        143,144,8216,8217,8220,8221,8226,8211,8212,732,8482,353,8250,339,157,
        382,376>>
      \* a reference is given by its length in s, 0 for none, and by the
      \* characters it stands for
      none == [len |-> 0, chars |-> <<>>]
      \* the character of a numeric reference with the significant digits g
      numeric_char(g, hex) ==
        LET n == Len(g)
            h(k) == IF k < n THEN hexvalue[g[n - k]] * 16 ^ k ELSE 0
            char(v) ==
              IF v = 0 \/ v > 1114111 \/ v \in 55296..57343 THEN "U+FFFD"
              ELSE char_from_u32(IF v \in 128..159 THEN c1[v - 127] ELSE v)
        IN  char(IF hex
                 THEN (IF n > 6 THEN 16 ^ 6
                       ELSE h(0) + h(1) + h(2) + h(3) + h(4) + h(5))
                 ELSE (IF n > 7 THEN 16 ^ 6 ELSE DecimalValue(g)))
      \* the numeric reference at position i, where s[i] = "&", with the
      \* digits ds
      numeric(i, hex, ds) ==
        LET nz == {k \in 1..Len(ds) : ds[k] # "0"}
            n == 2 + (IF hex THEN 1 ELSE 0) + Len(ds)
        IN  [len |-> IF i + n <= Len(s) /\ s[i + n] = ";" THEN n + 1 ELSE n,
             chars |-> <<numeric_char(
                           IF nz = {} THEN <<>>
                           ELSE SubSeq(ds, CHOOSE k \in nz : \A j \in nz : k <= j,
                                       Len(ds)), hex)>>]
      \* the named reference at position i: the longest name of the table
      \* among the strings that follow the ampersand
      named(i, following) ==
        LET name(k) == NAMED_ENTITIES[3 * k - 2]
            names == {k \in 1..(Len(NAMED_ENTITIES) \div 3) : name(k) \in following}
            longest(k, n) ==
              IF \/ s[i + n] = ";"
                 \/ ~in_attr
                 \/ i + n = Len(s)
                 \/ s[i + n + 1] \notin {"="} \cup letters \cup Digits
              THEN [len |-> 1 + n,
                    chars |-> IF NAMED_ENTITIES[3 * k] = ""
                              THEN <<NAMED_ENTITIES[3 * k - 1]>>
                              ELSE <<NAMED_ENTITIES[3 * k - 1],
                                     NAMED_ENTITIES[3 * k]>>]
              ELSE none
            of(k) == longest(k, Len(name(k)))
        IN  IF names = {} THEN none
            ELSE of(CHOOSE k \in names :
                      \A q \in names : Len(name(q)) <= Len(name(k)))
      digits_at(i, hex, ds) ==
        IF i + 1 <= Len(s) /\ s[i + 1] = "#" /\ ds # <<>>
        THEN numeric(i, hex, ds)
        ELSE named(i, {Concat(SubSeq(s, i + 1, i + n)) : n \in 1..(Len(s) - i)})
      hex_at(i, hex) ==
        digits_at(i, hex, IF hex THEN RunAt(s, i + 2, hexdigits)
                          ELSE RunAt(s, i + 1, Digits))
      reference(i) == hex_at(i, i + 2 <= Len(s) /\ s[i + 2] \in {"x", "X"})
      decode(refs) ==
        Concat([k \in 1..Len(s) |->
                  IF \E j \in 1..(k - 1) : j + refs[j].len > k THEN <<>>
                  ELSE IF refs[k].len > 0 THEN refs[k].chars
                  ELSE IF s[k] = "\r"
                  THEN (IF k < Len(s) /\ s[k + 1] = "\n" THEN <<>>
                        ELSE <<"\n">>)
                  ELSE <<s[k]>>])
  IN  IF \A k \in 1..Len(s) : s[k] \notin {"&", "\r"} THEN s
      ELSE decode([i \in 1..Len(s) |->
                     IF s[i] = "&" THEN reference(i) ELSE none])

RECURSIVE parse_node(_, _, _)
RECURSIVE parse_nodes(_, _, _)
parse_node(t, p, i) ==
  LET node(attrs, txt, sub) ==
        <<[tag |-> t.tag, cls |-> t.cls, attrs |-> attrs, txt |-> txt,
           parent |-> p, last |-> i + Len(sub)]>> \o sub
  IN  node([a \in DOMAIN t.attrs |-> decode_text(t.attrs[a], TRUE)],
           IF t.tag = "#text" THEN decode_text(t.txt, FALSE) ELSE t.txt,
           parse_nodes(t.kids, i, i + 1))

parse_nodes(ks, p, i) ==
  IF ks = <<>> THEN <<>>
  ELSE LET followed(f) == f \o parse_nodes(Tail(ks), p, i + Len(f))
       IN  followed(parse_node(Head(ks), p, i))

\* Html::parse_document
parse_document(content) == parse_nodes(content, 0, 1)

\* a faulty variant, which the properties reject: the check for empty
\* content without the trim
MutIsEmptyNoTrim(content) == content = <<>>

\* content.trim().is_empty(), on the string as it was passed: an element, a
\* comment and the doctype are written with "<", which is not white space
content_trim_is_empty(content) ==
  /\ \A k \in 1..Len(content) : content[k].tag = "#text"
  /\ trim(Concat([k \in 1..Len(content) |-> content[k].txt])) = <<>>

\* A compound selector: tag ("*" for any), required classes, required id
\* (<<>> for none), attributes that must be present, and one attribute
\* ("" for none) whose value must start with a prefix.
Sel(tag, cls) ==
  [tag |-> tag, cls |-> cls, id |-> <<>>, has |-> {}, preAttr |-> "",
   preVal |-> <<>>]

matches_compound(n, c) ==
  /\ n.tag \notin {"#text", "#comment", "#doctype"}
  /\ c.tag = "*" \/ n.tag = c.tag
  /\ c.cls \subseteq n.cls
  /\ c.id = <<>> \/ ("id" \in DOMAIN n.attrs /\ n.attrs["id"] = c.id)
  /\ c.has \subseteq DOMAIN n.attrs
  /\ c.preAttr = "" \/ (/\ c.preAttr \in DOMAIN n.attrs
                        /\ c.preVal # <<>>
                        /\ starts_with(n.attrs[c.preAttr], c.preVal))

\* the compounds sel[1..k] match a chain of ancestors starting at node p
RECURSIVE matches_ancestors(_, _, _, _)
matches_ancestors(doc, p, sel, k) ==
  IF k = 0 THEN TRUE
  ELSE IF p = 0 THEN FALSE
  ELSE IF matches_compound(doc[p], sel[k])
       THEN matches_ancestors(doc, doc[p].parent, sel, k - 1)
       ELSE matches_ancestors(doc, doc[p].parent, sel, k)

\* a complex selector is a sequence of compounds joined by the descendant
\* combinator
matches_selector(doc, i, sel) ==
  /\ matches_compound(doc[i], sel[Len(sel)])
  /\ matches_ancestors(doc, doc[i].parent, sel, Len(sel) - 1)

Indices(lo, hi) == [k \in 1..(hi - lo + 1) |-> lo + k - 1]

\* Html::select: the matching elements, in document order
select(doc, sel) ==
  SelectSeq(Indices(1, Len(doc)), LAMBDA i : matches_selector(doc, i, sel))

\* ElementRef::select: the matching descendants of element e
select_in(doc, e, sel) ==
  SelectSeq(Indices(e + 1, doc[e].last),
            LAMBDA i : matches_selector(doc, i, sel))

\* Iterator::next on a fresh iterator
next(s) == IF s = <<>> THEN <<>> ELSE <<Head(s)>>

\* element.text().collect::<String>()
text(doc, e) ==
  Concat([k \in 1..(doc[e].last - e + 1) |->
            IF doc[e + k - 1].tag = "#text" THEN doc[e + k - 1].txt
            ELSE <<>>])

\* element.value().attr(name)
attr(doc, e, name) ==
  IF name \in DOMAIN doc[e].attrs THEN <<doc[e].attrs[name]>> ELSE <<>>

----------------------------------------------------------------------------
(* Normalizers: models/submission.rs and utils.rs.                         *)

\* str::replace(pat, ""): every non-overlapping occurrence, left to right
RECURSIVE remove_all(_, _)
remove_all(s, pat) ==
  IF s = <<>> THEN <<>>
  ELSE IF MatchAt(s, 0, pat)
       THEN remove_all(SubSeq(s, Len(pat) + 1, Len(s)), pat)
       ELSE <<Head(s)>> \o remove_all(Tail(s), pat)

\* str::trim_end_matches(pat): the suffix is removed as often as it occurs
RECURSIVE trim_end_matches(_, _)
trim_end_matches(s, pat) ==
  IF ends_with(s, pat) THEN trim_end_matches(SubSeq(s, 1, Len(s) - Len(pat)), pat)
  ELSE s

\* a faulty variant, which the properties reject: the spaces of the text are
\* kept
MutStatusKeepsSpaces(s) ==
  LET txt == to_lowercase(s)
  IN  CASE txt = <<"u","n","k","n","o","w","n">> -> <<"Unknown">>
        [] txt = <<"a","c","c","e","p","t","e","d">> -> <<"Accepted">>
        [] txt = <<"w","r","o","n","g","a","n","s","w","e","r">> -> <<"WrongAnswer">>
        [] txt = <<"p","a","r","t","i","a","l","l","y","c","o","r","r","e","c","t">> -> <<"PartiallyCorrect">>
        [] txt = <<"r","u","n","t","i","m","e","e","r","r","o","r">> -> <<"RuntimeError">>
        [] txt = <<"c","o","m","p","i","l","e","e","r","r","o","r">> -> <<"CompileError">>
        [] txt = <<"t","i","m","e","l","i","m","i","t","e","x","c","e","e","d","e","d">> -> <<"TimeLimitExceeded">>
        [] txt = <<"m","e","m","o","r","y","l","i","m","i","t","e","x","c","e","e","d","e","d">> -> <<"MemoryLimitExceeded">>
        [] OTHER -> <<>>

\* impl FromStr for SubmissionStatus: Some(status) or None for Err
SubmissionStatus_from_str(s) ==
  LET status(txt) ==
        CASE txt = <<"u","n","k","n","o","w","n">> -> <<"Unknown">>
            [] txt = <<"a","c","c","e","p","t","e","d">> -> <<"Accepted">>
            [] txt = <<"w","r","o","n","g","a","n","s","w","e","r">> -> <<"WrongAnswer">>
            [] txt = <<"p","a","r","t","i","a","l","l","y","c","o","r","r","e","c","t">> -> <<"PartiallyCorrect">>
            [] txt = <<"r","u","n","t","i","m","e","e","r","r","o","r">> -> <<"RuntimeError">>
            [] txt = <<"c","o","m","p","i","l","e","e","r","r","o","r">> -> <<"CompileError">>
            [] txt = <<"t","i","m","e","l","i","m","i","t","e","x","c","e","e","d","e","d">> -> <<"TimeLimitExceeded">>
            [] txt = <<"m","e","m","o","r","y","l","i","m","i","t","e","x","c","e","e","d","e","d">> -> <<"MemoryLimitExceeded">>
            [] OTHER -> <<>>
  IN  status(to_lowercase(remove_all(s, <<" ">>)))

\* the closed sets of the data model
SubmissionStatus ==
  {"Unknown", "Accepted", "WrongAnswer", "PartiallyCorrect", "RuntimeError",
   "CompileError", "TimeLimitExceeded", "MemoryLimitExceeded"}

SubmissionLanguage ==
  {"Cpp14", "Cpp17", "Cpp11", "Cpp", "CppNoiLinux", "Cpp11NoiLinux",
   "Cpp11Clang", "Cpp17Clang", "C", "CNoiLinux"}

\* #[derive(Serialize)] of SubmissionStatus and of SubmissionLanguage: the
\* string a variant is written as, its name unless #[serde(rename)] gives
\* another
serialize(v) ==
  CASE v = "Unknown" -> <<"U","n","k","n","o","w","n">>
    [] v = "Accepted" -> <<"A","c","c","e","p","t","e","d">>
    [] v = "WrongAnswer" -> <<"W","r","o","n","g"," ","A","n","s","w","e","r">>
    [] v = "PartiallyCorrect" -> <<"P","a","r","t","i","a","l","l","y"," ","C","o","r","r","e","c","t">>
    [] v = "RuntimeError" -> <<"R","u","n","t","i","m","e"," ","E","r","r","o","r">>
    [] v = "CompileError" -> <<"C","o","m","p","i","l","e"," ","E","r","r","o","r">>
    [] v = "TimeLimitExceeded" -> <<"T","i","m","e"," ","L","i","m","i","t"," ","E","x","c","e","e","d","e","d">>
    [] v = "MemoryLimitExceeded" -> <<"M","e","m","o","r","y"," ","L","i","m","i","t"," ","E","x","c","e","e","d","e","d">>
    [] v = "Cpp14" -> <<"c","p","p","1","4">>
    [] v = "Cpp17" -> <<"c","p","p","1","7">>
    [] v = "Cpp11" -> <<"c","p","p","1","1">>
    [] v = "Cpp" -> <<"c","p","p">>
    [] v = "CppNoiLinux" -> <<"c","p","p","-","n","o","i","l","i","n","u","x">>
    [] v = "Cpp11NoiLinux" -> <<"c","p","p","1","1","-","n","o","i","l","i","n","u","x">>
    [] v = "Cpp11Clang" -> <<"c","p","p","1","1","-","c","l","a","n","g">>
    [] v = "Cpp17Clang" -> <<"c","p","p","1","7","-","c","l","a","n","g">>
    [] v = "C" -> <<"c">>
    [] v = "CNoiLinux" -> <<"c","-","n","o","i","l","i","n","u","x">>

\* #[default] of SubmissionStatus and of SubmissionLanguage
SubmissionStatus_default == "Unknown"

SubmissionLanguage_default == "Cpp17"

\* a faulty variant, which the properties reject: NOI Linux looked for
\* before clang
MutLanguageNoiLinuxFirst(s) ==
  LET txt == to_lowercase(trim(s))
      has_clang == contains(txt, <<"c","l","a","n","g">>)
      has_noilinux == contains(txt, <<"n","o","i">>) /\ contains(txt, <<"l","i","n","u","x">>)
  IN  IF txt = <<>> THEN <<>>
      ELSE IF contains(txt, <<"c","+","+">>) \/ contains(txt, <<"c","p","p">>)
      THEN IF has_noilinux
           THEN IF contains(txt, <<"1","1">>) THEN <<"Cpp11NoiLinux">>
                ELSE <<"CppNoiLinux">>
           ELSE IF has_clang
           THEN IF contains(txt, <<"1","7">>) THEN <<"Cpp17Clang">>
                ELSE <<"Cpp11Clang">>
           ELSE IF contains(txt, <<"1","7">>) THEN <<"Cpp17">>
           ELSE IF contains(txt, <<"1","4">>) THEN <<"Cpp14">>
           ELSE IF contains(txt, <<"1","1">>) THEN <<"Cpp11">>
           ELSE <<"Cpp">>
      ELSE IF /\ contains(txt, <<"c">>)
              /\ ~contains(txt, <<"c","#">>)
              /\ ~contains(txt, <<"c","s">>)
      THEN IF has_noilinux THEN <<"CNoiLinux">> ELSE <<"C">>
      ELSE <<"Cpp17">>

\* impl FromStr for SubmissionLanguage: Some(language) or None for Err
SubmissionLanguage_from_str(s) ==
  LET language(txt) ==
        LET has_clang == contains(txt, <<"c","l","a","n","g">>)
            has_noilinux == contains(txt, <<"n","o","i">>) /\ contains(txt, <<"l","i","n","u","x">>)
        IN  IF txt = <<>> THEN <<>>
            ELSE IF contains(txt, <<"c","+","+">>) \/ contains(txt, <<"c","p","p">>)
            THEN IF has_clang
                 THEN IF contains(txt, <<"1","7">>) THEN <<"Cpp17Clang">>
                      ELSE <<"Cpp11Clang">>
                 ELSE IF has_noilinux
                 THEN IF contains(txt, <<"1","1">>) THEN <<"Cpp11NoiLinux">>
                      ELSE <<"CppNoiLinux">>
                 ELSE IF contains(txt, <<"1","7">>) THEN <<"Cpp17">>
                 ELSE IF contains(txt, <<"1","4">>) THEN <<"Cpp14">>
                 ELSE IF contains(txt, <<"1","1">>) THEN <<"Cpp11">>
                 ELSE <<"Cpp">>
            ELSE IF /\ contains(txt, <<"c">>)
                    /\ ~contains(txt, <<"c","#">>)
                    /\ ~contains(txt, <<"c","s">>)
            THEN IF has_noilinux THEN <<"CNoiLinux">> ELSE <<"C">>
            ELSE <<"Cpp17">>
  IN  language(to_lowercase(trim(s)))

\* Option::unwrap_or
unwrap_or(o, d) == IF o = <<>> THEN d ELSE o[1]

\* f64 values: kind is "fin", "inf" or "nan", the sign is in neg, and a finite
\* value is m * 2^e, where m is a natural number written as the sequence of
\* its bits, the highest first, and odd; zero is the empty sequence with e = 0.
\* A finite value of 2^1024 or more is an infinity.
F64(kind, neg, m, e) ==
  LET ones == {i \in 1..Len(m) : m[i] = 1}
      high == CHOOSE i \in ones : \A j \in ones : i <= j
      low == CHOOSE i \in ones : \A j \in ones : j <= i
  IN  IF ones = {} THEN [kind |-> kind, neg |-> neg, m |-> <<>>, e |-> 0]
      ELSE IF kind = "fin" /\ Len(m) + 1 - high + e > 1024
      THEN [kind |-> "inf", neg |-> neg, m |-> <<>>, e |-> 0]
      ELSE [kind |-> kind, neg |-> neg, m |-> SubSeq(m, high, low),
            e |-> e + Len(m) - low]

\* the arithmetic of the f64 conversions, which is exact on naturals of any
\* size; a natural is worked on in halves, the half the other depends on
\* first, so that no evaluation goes deep.
\* <<the Len(a) low bits of a * c + carry, what is above them>>, for c and
\* carry below 2^30; nothing is carried into leading zeros
RECURSIVE nat_mul(_, _, _)
nat_mul(a, c, carry) ==
  IF a = <<>> THEN <<<<>>, carry>>
  ELSE IF Len(a) = 1
  THEN <<<<(a[1] * c + carry) % 2>>, (a[1] * c + carry) \div 2>>
  ELSE LET h == Len(a) \div 2
           lo == nat_mul(SubSeq(a, h + 1, Len(a)), c, carry)
           hi == nat_mul(SubSeq(a, 1, h), c, lo[2])
       IN  IF lo[2] = 0 /\ \A i \in 1..h : a[i] = 0
           THEN <<SubSeq(a, 1, h) \o lo[1], 0>>
           ELSE <<hi[1] \o lo[1], hi[2]>>

\* <<the quotient, the remainder>> of r * 2^Len(a) + a by c, for r < c < 2^30
RECURSIVE nat_div(_, _, _)
nat_div(a, c, r) ==
  IF a = <<>> THEN <<<<>>, r>>
  ELSE IF Len(a) = 1 THEN <<<<(2 * r + a[1]) \div c>>, (2 * r + a[1]) % c>>
  ELSE LET h == Len(a) \div 2
           hi == nat_div(SubSeq(a, 1, h), c, r)
           lo == nat_div(SubSeq(a, h + 1, Len(a)), c, hi[2])
       IN  <<hi[1] \o lo[1], lo[2]>>

\* <<the integer part of a * 10^e, whether something was cut off>>, nine
\* places at a time, without leading zeros
RECURSIVE nat_scale10(_, _, _)
nat_scale10(a, e, cut) ==
  IF e = 0 THEN <<a, cut>>
  ELSE IF e \in 1..9 \/ 0 - e \in 1..9
  THEN LET strip(d) ==
             LET ones == {i \in 1..Len(d[1]) : d[1][i] = 1}
             IN  <<IF ones = {} THEN <<>>
                   ELSE SubSeq(d[1], CHOOSE i \in ones : \A j \in ones : i <= j,
                               Len(d[1])),
                   cut \/ d[2] # 0>>
       IN  strip(IF e > 0
                 THEN <<nat_mul([i \in 1..30 |-> 0] \o a, 10 ^ e, 0)[1], 0>>
                 ELSE nat_div(a, 10 ^ (0 - e), 0))
  ELSE LET rest(p) ==
             IF p[1] = <<>> THEN p ELSE nat_scale10(p[1], e - e \div 2, p[2])
       IN  rest(nat_scale10(a, e \div 2, cut))

\* the natural number a string of digits writes, nine digits at a time
RECURSIVE nat_from_digits(_)
nat_from_digits(s) ==
  LET k == IF Len(s) < 9 THEN Len(s) ELSE 9
  IN  IF s = <<>> THEN <<>>
      ELSE nat_mul([i \in 1..30 |-> 0] \o nat_from_digits(SubSeq(s, 1, Len(s) - k)),
                   10 ^ k, DecimalValue(SubSeq(s, Len(s) - k + 1, Len(s))))[1]

\* a natural number below 2^31 as an integer
RECURSIVE nat_value(_)
nat_value(a) ==
  IF a = <<>> THEN 0
  ELSE IF Len(a) = 1 THEN a[1]
  ELSE LET h == Len(a) \div 2
       IN  nat_value(SubSeq(a, 1, h)) * 2 ^ (Len(a) - h)
             + nat_value(SubSeq(a, h + 1, Len(a)))

\* the f64 nearest to b * 2^e, or to a little more than that when cut, for
\* q = <<b, cut>>: 53 bits are kept, fewer below the normal range, a tie goes
\* to the even neighbour, and a value beyond the range is an infinity
RECURSIVE f64_round(_, _, _)
f64_round(neg, q, e) ==
  LET b == q[1]
      ones == {i \in 1..Len(b) : b[i] = 1}
      \* the number of bits kept
      keep == IF Len(b) + e + 1074 < 53 THEN Len(b) + e + 1074 ELSE 53
      kept == SubSeq(b, 1, IF keep < Len(b) THEN keep ELSE Len(b))
      guard == keep < Len(b) /\ b[keep + 1] = 1
      rest == q[2] \/ \E i \in (keep + 2)..Len(b) : b[i] = 1
      odd == keep >= 1 /\ keep <= Len(b) /\ b[keep] = 1
  IN  IF ones = {} THEN F64("fin", neg, <<>>, e)
      \* leading zeros are dropped first
      ELSE IF b[1] = 0
      THEN f64_round(neg,
                     <<SubSeq(b, CHOOSE i \in ones : \A j \in ones : i <= j,
                              Len(b)), q[2]>>, e)
      ELSE F64("fin", neg,
               IF keep < 0 THEN <<>>
               ELSE IF guard /\ (rest \/ odd)
               THEN nat_mul(<<0>> \o kept, 1, 1)[1]
               ELSE kept,
               IF keep < Len(b) THEN e + Len(b) - keep ELSE e)

\* <f64 as FromStr>::from_str: [+-]? (digits [. digits*]? | . digits)
\* ([eE] [+-]? digits)?, or inf / infinity / nan with ASCII letters of either
\* case; no blanks.  The value is the f64 nearest to the decimal number.
\* Some(value) or None for Err.
f64_value(neg, low, body, epos) ==
  LET \* the mantissa, and the exponent with its sign put in front
      mant == IF epos = <<>> THEN body ELSE SubSeq(body, 1, epos[1])
      edig == IF epos = <<>> THEN <<"+">>
              ELSE IF epos[1] + 1 < Len(body) /\ body[epos[1] + 2] \in {"+", "-"}
              THEN SubSeq(body, epos[1] + 2, Len(body))
              ELSE <<"+">> \o SubSeq(body, epos[1] + 2, Len(body))
      dpos == find(mant, <<".">>)
      ip == IF dpos = <<>> THEN mant ELSE SubSeq(mant, 1, dpos[1])
      fp == IF dpos = <<>> THEN <<>> ELSE SubSeq(mant, dpos[1] + 2, Len(mant))
      \* the exponent is read digit by digit while it is below 0x10000: of
      \* its digits after the leading zeros five count when they make 65536
      \* or more, and six otherwise
      exponent(digits) ==
        IF Len(digits) <= 5 THEN DecimalValue(digits)
        ELSE IF DecimalValue(SubSeq(digits, 1, 5)) >= 65536
        THEN DecimalValue(SubSeq(digits, 1, 5))
        ELSE DecimalValue(SubSeq(digits, 1, 6))
      signed(e10) == (IF edig[1] = "-" THEN 0 - e10 ELSE e10) - Len(fp)
      special(kind) == [kind |-> kind, neg |-> neg, m |-> <<>>, e |-> 0]
      \* the f64 nearest to n * 10^e: a quotient has 64 + 4 * -e bits after
      \* the point
      nearest(n, e) ==
        IF \A i \in 1..Len(n) : n[i] = 0 THEN special("fin")
        ELSE IF e > 310 THEN special("inf")
        ELSE IF e + Len(ip \o fp) < 0 - 330 THEN special("fin")
        ELSE f64_round(neg,
                       nat_scale10(IF e >= 0 THEN n
                                   ELSE n \o [i \in 1..(64 + 4 * (0 - e)) |-> 0],
                                   e, FALSE),
                       IF e >= 0 THEN 0 ELSE 0 - (64 + 4 * (0 - e)))
  IN  IF low = <<"i","n","f">> \/ low = <<"i","n","f","i","n","i","t","y">>
      THEN <<special("inf")>>
      ELSE IF low = <<"n","a","n">> THEN <<special("nan")>>
      ELSE IF /\ AllDigits(ip) /\ AllDigits(fp) /\ Len(mant) > Len(dpos)
              /\ epos = <<>> \/ (Len(edig) > 1 /\ AllDigits(Tail(edig)))
      THEN <<nearest(nat_from_digits(ip \o fp),
                     signed(exponent(SubSeq(edig, Len(RunAt(edig, 1, {"0"})) + 2,
                                            Len(edig)))))>>
      ELSE <<>>

f64_from_str(s) ==
  LET body == IF s # <<>> /\ s[1] \in {"+", "-"} THEN Tail(s) ELSE s
      es == {i \in 0..(Len(body) - 1) : body[i + 1] \in {"e", "E"}}
      \* u8::to_ascii_lowercase on the letters of inf, infinity and nan
      low == [k \in 1..Len(body) |->
                IF body[k] \in {"A","F","I","N","T","Y"}
                THEN LowerOf[body[k]][1] ELSE body[k]]
  IN  f64_value(s # <<>> /\ s[1] = "-", low, body,
                IF es = {} THEN <<>>
                ELSE <<CHOOSE i \in es : \A j \in es : i <= j>>)

\* v * k and v / k for a positive integer k below 2^30: the f64 nearest to
\* the exact product and quotient
f64_mul(v, k) ==
  IF v.kind # "fin" THEN v
  ELSE f64_round(v.neg, <<nat_mul([i \in 1..30 |-> 0] \o v.m, k, 0)[1], FALSE>>,
                 v.e)

f64_div(v, k) ==
  LET q == nat_div(v.m \o [i \in 1..96 |-> 0], k, 0)
  IN  IF v.kind # "fin" THEN v
      ELSE f64_round(v.neg, <<q[1], q[2] # 0>>, v.e - 96)

I32_MAX == 2147483647

I32_MIN == 0 - 2147483647 - 1

\* `v as i32`: truncation toward zero, saturating, NaN to 0
as_i32(v) ==
  LET bits == Len(v.m) + v.e
      q == nat_value(IF v.e >= 0 THEN v.m \o [i \in 1..v.e |-> 0]
                     ELSE SubSeq(v.m, 1, bits))
  IN  IF v.kind = "nan" THEN 0
      ELSE IF v.kind = "inf" \/ bits > 31
      THEN (IF v.neg THEN I32_MIN ELSE I32_MAX)
      ELSE IF bits <= 0 THEN 0
      ELSE IF v.neg THEN 0 - q ELSE q

\* Option::map
map_as_i32(o) == IF o = <<>> THEN <<>> ELSE <<as_i32(o[1])>>

\* utils::parse_time_to_ms
parse_time_to_ms(s) ==
  LET txt == trim(s)
      lower == to_lowercase(txt)
  IN  IF txt = <<>> THEN <<>>
      ELSE IF contains(lower, <<"m","s">>)
      THEN map_as_i32(f64_from_str(trim(remove_all(lower, <<"m","s">>))))
      ELSE IF contains(lower, <<"s">>)
      THEN LET map(v) ==
                 IF v = <<>> THEN <<>> ELSE <<as_i32(f64_mul(v[1], 1000))>>
           IN  map(f64_from_str(trim(remove_all(lower, <<"s">>))))
      ELSE map_as_i32(f64_from_str(txt))

\* a faulty variant, which the properties reject: the bytes suffix checked
\* before the others
MutMemBytesFirst(s) ==
  LET txt == trim(s)
      lower == to_lowercase(txt)
  IN  IF txt = <<>> THEN <<>>
      ELSE IF ends_with(lower, <<"b">>)
      THEN LET map(v) ==
                 IF v = <<>> THEN <<>> ELSE <<as_i32(f64_div(v[1], 1024))>>
           IN  map(f64_from_str(trim(trim_end_matches(lower, <<"b">>))))
      ELSE IF ends_with(lower, <<"m">>)
      THEN LET map(v) ==
                 IF v = <<>> THEN <<>> ELSE <<as_i32(f64_mul(v[1], 1024))>>
           IN  map(f64_from_str(trim(trim_end_matches(lower, <<"m">>))))
      ELSE IF ends_with(lower, <<"k">>)
      THEN map_as_i32(f64_from_str(trim(trim_end_matches(lower, <<"k">>))))
      ELSE map_as_i32(f64_from_str(txt))

\* utils::parse_mem_to_kb
parse_mem_to_kb(s) ==
  LET txt == trim(s)
      lower == to_lowercase(txt)
  IN  IF txt = <<>> THEN <<>>
      ELSE IF ends_with(lower, <<"m","b">>) \/ ends_with(lower, <<"m">>)
      THEN LET map(v) ==
                 IF v = <<>> THEN <<>> ELSE <<as_i32(f64_mul(v[1], 1024))>>
           IN  map(f64_from_str(trim(trim_end_matches(
                 trim_end_matches(lower, <<"m","b">>), <<"m">>))))
      ELSE IF ends_with(lower, <<"k","b">>) \/ ends_with(lower, <<"k">>)
      THEN map_as_i32(f64_from_str(trim(trim_end_matches(
                      trim_end_matches(lower, <<"k","b">>), <<"k">>))))
      ELSE IF ends_with(lower, <<"b">>)
      THEN LET map(v) ==
                 IF v = <<>> THEN <<>> ELSE <<as_i32(f64_div(v[1], 1024))>>
           IN  map(f64_from_str(trim(trim_end_matches(lower, <<"b">>))))
      ELSE map_as_i32(f64_from_str(txt))

\* <i32 as FromStr>::from_str on a string of digits, as the regex captures
\* (\d+) hand it over: None when the value does not fit
RECURSIVE DecimalChecked(_)
DecimalChecked(s) ==
  IF s = <<>> THEN <<0>>
  ELSE LET p == DecimalChecked(SubSeq(s, 1, Len(s) - 1))
           d == DigitValue[s[Len(s)]]
       IN  IF p = <<>> \/ p[1] > (I32_MAX - d) \div 10 THEN <<>>
           ELSE <<p[1] * 10 + d>>

i32_from_digits(s) ==
  IF s # <<>> /\ AllDigits(s) THEN DecimalChecked(s) ELSE <<>>

----------------------------------------------------------------------------
(* Regular expressions, matched as the regex crate does: the leftmost      *)
(* match, greedy repetitions.  Each yields the capture group as an Option. *)

RECURSIVE RunAtNot(_, _, _)
RunAtNot(s, i, cs) ==
  IF i < Len(s) /\ s[i + 1] \notin cs
  THEN <<s[i + 1]>> \o RunAtNot(s, i + 1, cs)
  ELSE <<>>

\* the least element of a non-empty set of naturals
Least(S) == CHOOSE i \in S : \A j \in S : i <= j

\* lit(\d+)
first_digits_after(s, lit) ==
  LET hits == {i \in 0..Len(s) :
                 MatchAt(s, i, lit) /\ RunAt(s, i + Len(lit), Nd) # <<>>}
  IN  IF hits = {} THEN <<>>
      ELSE <<RunAt(s, Least(hits) + Len(lit), Nd)>>

\* a Submission
Submission(code, pid, rid, oj, language, status, total_time, max_memory, score) ==
  [code |-> code, pid |-> pid, rid |-> rid, oj |-> oj, language |-> language,
   status |-> status, total_time |-> total_time, max_memory |-> max_memory,
   score |-> score]

\* ExtractError::new(kind) and ExtractError::with_partial(kind, partial),
\* wrapped in Error::Extract
ExtractError_new(kind) == [NoResult EXCEPT !.kind = kind]

\* a faulty variant, which the properties reject: the error built without
\* the partial Submission
MutWithPartialDropsPayload(kind, field, partial) ==
  [NoResult EXCEPT !.kind = kind, !.field = field]

ExtractError_with_partial(kind, field, partial) ==
  [NoResult EXCEPT !.kind = kind, !.field = field, !.partial = <<partial>>]

Ok_Submission(sub) == [NoResult EXCEPT !.kind = "Ok", !.sub = <<sub>>]

\* Self::validate_submission(&submission)?; Ok(submission), given what
\* validate_submission returned
validate_then_ok(validated, submission) ==
  IF validated # NoResult THEN validated ELSE Ok_Submission(submission)

----------------------------------------------------------------------------
(* extractors/luogu.rs                                                     *)

\* PROBLEM_REGEX /problem/(P?\d+)
Luogu_PROBLEM_REGEX(s) ==
  LET lit == <<"/","p","r","o","b","l","e","m","/">>
      cap(i) == IF MatchAt(s, i + Len(lit), <<"P">>)
                   /\ RunAt(s, i + Len(lit) + 1, Nd) # <<>>
                THEN <<"P">> \o RunAt(s, i + Len(lit) + 1, Nd)
                ELSE RunAt(s, i + Len(lit), Nd)
      hits == {i \in 0..Len(s) : MatchAt(s, i, lit) /\ cap(i) # <<>>}
  IN  IF hits = {} THEN <<>> ELSE <<cap(Least(hits))>>

\* RECORD_REGEX (?:https?://(?:www\.)?luogu\.com\.cn)?/record/(\d+): the
\* optional host does not change which /record/ is captured
Luogu_RECORD_REGEX(s) == first_digits_after(s, <<"/","r","e","c","o","r","d","/">>)

\* SCORE_REGEX (\d+)
Luogu_SCORE_REGEX(s) ==
  LET hits == {i \in 0..Len(s) : RunAt(s, i, Nd) # <<>>}
  IN  IF hits = {} THEN <<>> ELSE <<RunAt(s, Least(hits), Nd)>>

\* the text of the first descendant of e matching sel, trimmed, or ""
first_text_in(doc, e, sel) ==
  LET m == next(select_in(doc, e, sel))
  IN  IF m = <<>> THEN <<>> ELSE trim(text(doc, m[1]))

\* LuoguExtractor::extract_basic_info: the loop over the .field elements
RECURSIVE Luogu_basic_info_loop(_, _, _)
Luogu_basic_info_loop(doc, fields, acc) ==
  IF fields = <<>> THEN acc
  ELSE LET key == first_text_in(doc, Head(fields), <<Sel("*", {<<"k","e","y">>})>>)
           value == first_text_in(doc, Head(fields), <<Sel("*", {<<"v","a","l","u","e">>})>>)
       IN  Luogu_basic_info_loop(doc, Tail(fields),
             CASE key = <<"U+7F16","U+7A0B","U+8BED","U+8A00">> -> [acc EXCEPT !.language = value]
               [] key = <<"U+7528","U+65F6">> ->
                    [acc EXCEPT !.total_time = unwrap_or(parse_time_to_ms(value), 0)]
               [] key = <<"U+5185","U+5B58">> ->
                    [acc EXCEPT !.max_memory = unwrap_or(parse_mem_to_kb(value), 0)]
               [] OTHER -> acc)

Luogu_extract_basic_info(doc) ==
  LET init == [language |-> <<>>, total_time |-> 0, max_memory |-> 0]
      stat_el == next(select(doc, <<Sel("*", {<<"s","t","a","t">>, <<"c","o","l","o","r","-","i","n","v","e","r","s","e">>})>>))
  IN  IF stat_el = <<>> THEN init
      ELSE Luogu_basic_info_loop(doc,
             select_in(doc, stat_el[1], <<Sel("*", {<<"f","i","e","l","d">>})>>), init)

\* a faulty variant, which the properties reject: the first code element,
\* marked or not
MutCodeFirstCodeElement(doc) ==
  LET codes == select(doc, <<Sel("code", {})>>)
      pres == select(doc, <<Sel("pre", {})>>)
  IN  IF codes # <<>> THEN trim(text(doc, codes[1]))
      ELSE IF pres # <<>> THEN trim(text(doc, pres[1]))
      ELSE <<>>

\* LuoguExtractor::extract_code
Luogu_extract_code(doc) ==
  LET codes == select(doc, <<Sel("code", {})>>)
      marked == SelectSeq(codes,
                  LAMBDA e : \E c \in doc[e].cls : contains(c, <<"l","a","n","g","u","a","g","e","-">>))
      pres == select(doc, <<Sel("pre", {})>>)
  IN  IF marked # <<>> THEN trim(text(doc, marked[1]))
      ELSE IF codes # <<>> THEN trim(text(doc, codes[1]))
      ELSE IF pres # <<>> THEN trim(text(doc, pres[1]))
      ELSE <<>>

\* LuoguExtractor::extract_pid
Luogu_extract_pid(doc) ==
  LET found == SelectSeq(select(doc, <<Sel("a", {})>>),
                 LAMBDA e : /\ attr(doc, e, "href") # <<>>
                            /\ contains(attr(doc, e, "href")[1], <<"/","p","r","o","b","l","e","m","/">>)
                            /\ Luogu_PROBLEM_REGEX(attr(doc, e, "href")[1]) # <<>>)
  IN  IF found = <<>> THEN <<>>
      ELSE Luogu_PROBLEM_REGEX(attr(doc, found[1], "href")[1])[1]

\* LuoguExtractor::extract_status_and_score: the loop over the rows
RECURSIVE Luogu_status_score_loop(_, _, _)
Luogu_status_score_loop(doc, rows, acc) ==
  IF rows = <<>> THEN acc
  ELSE LET row_text == text(doc, Head(rows))
           \* row_text.split_whitespace().last(), "" when there is no token
           t == trim_end(row_text)
           starts == {i \in 0..Len(t) :
                        \A k \in (i + 1)..Len(t) : t[k] \notin White}
           last_token == IF t = <<>> THEN <<>>
                         ELSE SubSeq(t, Least(starts) + 1, Len(t))
           caps == Luogu_SCORE_REGEX(row_text)
       IN  Luogu_status_score_loop(doc, Tail(rows),
             [status |->
                IF contains(row_text, <<"U+8BC4","U+6D4B","U+72B6","U+6001">>)
                THEN unwrap_or(SubmissionStatus_from_str(trim(last_token)),
                               "Unknown")
                ELSE acc.status,
              score |->
                IF contains(row_text, <<"U+8BC4","U+6D4B","U+5206","U+6570">>) /\ caps # <<>>
                THEN unwrap_or(i32_from_digits(caps[1]), 0)
                ELSE acc.score])

Luogu_extract_status_and_score(doc) ==
  Luogu_status_score_loop(doc,
    select(doc, <<Sel("*", {<<"i","n","f","o","-","r","o","w","s">>}), Sel("div", {})>>),
    [status |-> "Unknown", score |-> 0])

\* LuoguExtractor::extract_rid
Luogu_extract_rid(url) == unwrap_or(Luogu_RECORD_REGEX(url), <<>>)

\* LuoguExtractor::extract_partial
Luogu_extract_partial(url, content) ==
  LET submission(info, code, pid, ss) ==
        Submission(code, pid, Luogu_extract_rid(url), <<"l","u","o","g","u">>,
                   unwrap_or(SubmissionLanguage_from_str(info.language),
                             SubmissionLanguage_default),
                   ss.status, info.total_time, info.max_memory, ss.score)
  \* document is the one value of parse_document(content)
  IN  CHOOSE sub \in
        {submission(Luogu_extract_basic_info(document),
                    Luogu_extract_code(document), Luogu_extract_pid(document),
                    Luogu_extract_status_and_score(document)) :
           document \in {parse_document(content)}} : TRUE

\* LuoguExtractor::validate_submission: Ok is NoResult
Luogu_validate_submission(sub) ==
  IF sub.pid = <<>>
  THEN ExtractError_with_partial("MissingField", "pid", sub)
  ELSE IF sub.rid = <<>>
  THEN ExtractError_with_partial("MissingField", "rid", sub)
  ELSE IF sub.code = <<>>
  THEN ExtractError_with_partial("MissingField", "code", sub)
  ELSE NoResult

\* a faulty variant, which the properties reject: the extraction failing on
\* a language text that does not parse
MutLuoguExtractStrict(url, content) ==
  IF content_trim_is_empty(content) THEN ExtractError_new("EmptyContent")
  ELSE LET submission == Luogu_extract_partial(url, content)
           v == Luogu_validate_submission(submission)
           info == Luogu_extract_basic_info(parse_document(content))
       IN  IF SubmissionLanguage_from_str(info.language) = <<>>
           THEN ExtractError_new("LanguageParse")
           ELSE IF v # NoResult THEN v ELSE Ok_Submission(submission)

\* <LuoguExtractor as Extractor>::extract
Luogu_extract(url, content) ==
  LET validated(submission) ==
        validate_then_ok(Luogu_validate_submission(submission), submission)
  IN  IF content_trim_is_empty(content) THEN ExtractError_new("EmptyContent")
      ELSE validated(Luogu_extract_partial(url, content))

----------------------------------------------------------------------------
(* extractors/vjudge.rs                                                    *)

\* RECORD_REGEX https://vjudge\.net/solution/(\d+)
Vjudge_RECORD_REGEX(s) ==
  first_digits_after(s, <<"h","t","t","p","s",":","/","/","v","j","u","d","g","e",".","n","e","t","/","s","o","l","u","t","i","o","n","/">>)

\* PROBLEM_REGEX /problem/([^/]+)
Vjudge_PROBLEM_REGEX(s) ==
  LET lit == <<"/","p","r","o","b","l","e","m","/">>
      hits == {i \in 0..Len(s) :
                 MatchAt(s, i, lit) /\ RunAtNot(s, i + Len(lit), {"/"}) # <<>>}
  IN  IF hits = {} THEN <<>>
      ELSE <<RunAtNot(s, Least(hits) + Len(lit), {"/"})>>

\* VjudgeExtractor::extract_code
Vjudge_extract_code(doc) ==
  LET codes == select(doc, <<Sel("pre", {}), Sel("code", {})>>)
      pres == select(doc, <<Sel("pre", {})>>)
  IN  IF codes # <<>> THEN trim(text(doc, codes[1]))
      ELSE IF pres # <<>> THEN trim(text(doc, pres[1]))
      ELSE <<>>

\* VjudgeExtractor::extract_pid
Vjudge_extract_pid(doc) ==
  LET found == SelectSeq(
                 select(doc, <<Sel("*", {<<"m","o","d","a","l","-","t","i","t","l","e">>}), Sel("a", {})>>),
                 LAMBDA e : /\ attr(doc, e, "href") # <<>>
                            /\ contains(attr(doc, e, "href")[1], <<"/","p","r","o","b","l","e","m","/">>)
                            /\ Vjudge_PROBLEM_REGEX(attr(doc, e, "href")[1]) # <<>>)
  IN  IF found = <<>> THEN <<>>
      ELSE Vjudge_PROBLEM_REGEX(attr(doc, found[1], "href")[1])[1]

\* VjudgeExtractor::extract_rid
Vjudge_extract_rid(url, doc) ==
  LET solution == <<"/","s","o","l","u","t","i","o","n","/">>
      links == SelectSeq(
                 select(doc, <<Sel("*", {<<"m","o","d","a","l","-","t","i","t","l","e">>}),
                               [Sel("a", {}) EXCEPT !.preAttr = "href",
                                                     !.preVal = solution]>>),
                 LAMBDA e : /\ attr(doc, e, "href") # <<>>
                            /\ \/ Vjudge_RECORD_REGEX(attr(doc, e, "href")[1]) # <<>>
                               \/ starts_with(attr(doc, e, "href")[1], solution))
      rows == SelectSeq(
                 select(doc, <<[Sel("tr", {}) EXCEPT !.has = {"id"}]>>),
                 LAMBDA e : /\ attr(doc, e, "id") # <<>>
                            /\ AllDigits(attr(doc, e, "id")[1]))
  IN  IF Vjudge_RECORD_REGEX(url) # <<>> THEN Vjudge_RECORD_REGEX(url)[1]
      ELSE IF links # <<>>
      THEN LET href == attr(doc, links[1], "href")[1]
           IN  IF Vjudge_RECORD_REGEX(href) # <<>> THEN Vjudge_RECORD_REGEX(href)[1]
               ELSE SubSeq(href, Len(solution) + 1, Len(href))
      ELSE IF rows # <<>> THEN attr(doc, rows[1], "id")[1]
      ELSE <<>>

\* the selector #info-panel table tbody tr
Vjudge_info_rows(doc) ==
  select(doc, <<[Sel("*", {}) EXCEPT !.id = <<"i","n","f","o","-","p","a","n","e","l">>], Sel("table", {}),
                Sel("tbody", {}), Sel("tr", {})>>)

\* the rows whose first th contains the label (lower-cased) and which have a td
Vjudge_labelled_rows(doc, label) ==
  SelectSeq(Vjudge_info_rows(doc),
    LAMBDA r : /\ select_in(doc, r, <<Sel("th", {})>>) # <<>>
               /\ contains(to_lowercase(text(doc,
                    select_in(doc, r, <<Sel("th", {})>>)[1])), label)
               /\ select_in(doc, r, <<Sel("td", {})>>) # <<>>)

\* the trimmed text of the first td of row r
Vjudge_td_text(doc, r) ==
  trim(text(doc, select_in(doc, r, <<Sel("td", {})>>)[1]))

\* VjudgeExtractor::extract_language
Vjudge_extract_language(doc) ==
  LET rows == Vjudge_labelled_rows(doc, <<"U+8BED","U+8A00">>)
      tips == select(doc, <<Sel("*", {<<"l","a","n","g","u","a","g","e">>}),
                            [Sel("div", {}) EXCEPT !.has = {"data-original-title"}]>>)
  IN  IF rows # <<>>
      THEN unwrap_or(SubmissionLanguage_from_str(Vjudge_td_text(doc, rows[1])), "Cpp17")
      ELSE IF tips # <<>> /\ attr(doc, tips[1], "data-original-title") # <<>>
      THEN unwrap_or(SubmissionLanguage_from_str(
                       attr(doc, tips[1], "data-original-title")[1]), "Cpp17")
      ELSE SubmissionLanguage_default

\* VjudgeExtractor::extract_status
Vjudge_extract_status(doc) ==
  LET views == select(doc, <<Sel("*", {<<"s","t","a","t","u","s">>}), Sel("*", {<<"v","i","e","w","-","s","o","l","u","t","i","o","n">>})>>)
      rows == Vjudge_labelled_rows(doc, <<"U+8BC4","U+6D4B","U+7ED3","U+679C">>)
  IN  IF views # <<>>
      THEN unwrap_or(SubmissionStatus_from_str(trim(text(doc, views[1]))), "Unknown")
      ELSE IF rows # <<>>
      THEN unwrap_or(SubmissionStatus_from_str(Vjudge_td_text(doc, rows[1])), "Unknown")
      ELSE SubmissionStatus_default

\* VjudgeExtractor::extract_time_and_memory: the loop over the info rows
RECURSIVE Vjudge_time_memory_loop(_, _, _)
Vjudge_time_memory_loop(doc, rows, acc) ==
  IF rows = <<>> THEN acc
  ELSE LET r == Head(rows)
           ths == select_in(doc, r, <<Sel("th", {})>>)
           tds == select_in(doc, r, <<Sel("td", {})>>)
           header_text == to_lowercase(text(doc, ths[1]))
           value_text == trim(text(doc, tds[1]))
       IN  Vjudge_time_memory_loop(doc, Tail(rows),
             IF ths = <<>> \/ tds = <<>> THEN acc
             ELSE IF contains(header_text, <<"U+8017","U+65F6">>)
             THEN [acc EXCEPT !.total_time =
                     unwrap_or(parse_time_to_ms(value_text), acc.total_time)]
             ELSE IF contains(header_text, <<"U+5185","U+5B58","U+6D88","U+8017">>)
             THEN [acc EXCEPT !.max_memory =
                     unwrap_or(parse_mem_to_kb(value_text), acc.max_memory)]
             ELSE acc)

\* the fallback to the info panel when a value is still 0
Vjudge_info_panel_fallback(doc, first) ==
  IF first.total_time = 0 \/ first.max_memory = 0
  THEN Vjudge_time_memory_loop(doc, Vjudge_info_rows(doc), first)
  ELSE first

Vjudge_extract_time_and_memory(doc) ==
  LET runtime == select(doc, <<Sel("*", {<<"r","u","n","t","i","m","e">>})>>)
      memory == select(doc, <<Sel("*", {<<"m","e","m","o","r","y">>})>>)
  IN  Vjudge_info_panel_fallback(doc,
        [total_time |->
           IF runtime = <<>> THEN 0
           ELSE unwrap_or(parse_time_to_ms(trim(text(doc, runtime[1]))), 0),
         max_memory |->
           IF memory = <<>> THEN 0
           ELSE unwrap_or(parse_mem_to_kb(trim(text(doc, memory[1]))), 0)])

\* a faulty variant, which the properties reject: no score for a partially
\* correct submission
MutScoreAcceptedOnly(status) ==
  CASE status = "Accepted" -> 100
    [] OTHER -> 0

\* VjudgeExtractor::extract_score
Vjudge_extract_score(status) ==
  CASE status = "Accepted" -> 100
    [] status = "PartiallyCorrect" -> 50
    [] OTHER -> 0

\* VjudgeExtractor::extract_oj
Vjudge_extract_oj(doc) ==
  LET ojs == select(doc, <<Sel("*", {<<"o","j">>})>>)
  IN  IF ojs # <<>> THEN trim(text(doc, ojs[1])) ELSE <<"v","j">>

\* VjudgeExtractor::extract_partial
Vjudge_extract_partial(url, content) ==
  LET submission(code, pid, rid, language, status, tm, oj) ==
        Submission(code, pid, rid, oj, language, status,
                   tm.total_time, tm.max_memory, Vjudge_extract_score(status))
  \* document is the one value of parse_document(content)
  IN  CHOOSE sub \in
        {submission(Vjudge_extract_code(document), Vjudge_extract_pid(document),
                    Vjudge_extract_rid(url, document),
                    Vjudge_extract_language(document),
                    Vjudge_extract_status(document),
                    Vjudge_extract_time_and_memory(document),
                    Vjudge_extract_oj(document)) :
           document \in {parse_document(content)}} : TRUE

\* a faulty variant, which the properties reject: the validation without
\* the check of code
MutVjudgeValidateNoCode(sub) ==
  IF sub.pid = <<>>
  THEN ExtractError_with_partial("MissingField", "pid", sub)
  ELSE IF sub.rid = <<>>
  THEN ExtractError_with_partial("MissingField", "rid", sub)
  ELSE NoResult

\* VjudgeExtractor::validate_submission: Ok is NoResult
Vjudge_validate_submission(sub) ==
  IF sub.pid = <<>>
  THEN ExtractError_with_partial("MissingField", "pid", sub)
  ELSE IF sub.rid = <<>>
  THEN ExtractError_with_partial("MissingField", "rid", sub)
  ELSE IF sub.code = <<>>
  THEN ExtractError_with_partial("MissingField", "code", sub)
  ELSE NoResult

\* <VjudgeExtractor as Extractor>::extract
Vjudge_extract(url, content) ==
  LET validated(submission) ==
        validate_then_ok(Vjudge_validate_submission(submission), submission)
  IN  IF content_trim_is_empty(content) THEN ExtractError_new("EmptyContent")
      ELSE validated(Vjudge_extract_partial(url, content))

----------------------------------------------------------------------------
(* extractors/xyd.rs                                                       *)

\* PROBLEM_REGEX <problem id label>\s*(\d+)
Xyd_PROBLEM_REGEX(s) ==
  LET lit == <<"U+9898","U+76EE","I","D","U+FF1A">>
      after(i) == i + Len(lit) + Len(RunAt(s, i + Len(lit), White))
      hits == {i \in 0..Len(s) :
                 MatchAt(s, i, lit) /\ RunAt(s, after(i), Nd) # <<>>}
  IN  IF hits = {} THEN <<>> ELSE <<RunAt(s, after(Least(hits)), Nd)>>

\* RECORD_REGEX https://(?:www\.)?xinyoudui\.com/ac/contest/.*?/problem/(\d+)
Xyd_RECORD_REGEX(s) ==
  LET plain == <<"h","t","t","p","s",":","/","/","x","i","n","y","o","u","d","u","i",".","c","o","m","/","a","c","/","c","o","n","t","e","s","t","/">>
      www == <<"h","t","t","p","s",":","/","/","w","w","w",".","x","i","n","y","o","u","d","u","i",".","c","o","m","/","a","c","/","c","o","n","t","e","s","t","/">>
      problem == <<"/","p","r","o","b","l","e","m","/">>
      \* the offsets at which the lazy .*? may stop, for a match starting at i
      \* whose host part ends at offset b
      stops(b) == {j \in b..Len(s) :
                     /\ \A k \in (b + 1)..j : s[k] # "\n"
                     /\ MatchAt(s, j, problem)
                     /\ RunAt(s, j + Len(problem), Nd) # <<>>}
      body(i) == IF MatchAt(s, i, plain) THEN i + Len(plain) ELSE i + Len(www)
      hits == {i \in 0..Len(s) :
                 /\ MatchAt(s, i, plain) \/ MatchAt(s, i, www)
                 /\ stops(body(i)) # {}}
  IN  IF hits = {} THEN <<>>
      ELSE <<RunAt(s, Least(stops(body(Least(hits)))) + Len(problem), Nd)>>

\* TIME_MEM_REGEX time: (\d+)ms, memory: (\d+)kb: both capture groups
Xyd_TIME_MEM_REGEX(s) ==
  LET l1 == <<"t","i","m","e",":"," ">>
      l2 == <<"m","s",","," ","m","e","m","o","r","y",":"," ">>
      l3 == <<"k","b">>
      d1(i) == RunAt(s, i + Len(l1), Nd)
      p2(i) == i + Len(l1) + Len(d1(i))
      d2(i) == RunAt(s, p2(i) + Len(l2), Nd)
      hits == {i \in 0..Len(s) :
                 /\ MatchAt(s, i, l1) /\ d1(i) # <<>>
                 /\ MatchAt(s, p2(i), l2) /\ d2(i) # <<>>
                 /\ MatchAt(s, p2(i) + Len(l2) + Len(d2(i)), l3)}
  IN  IF hits = {} THEN <<>> ELSE << <<d1(Least(hits)), d2(Least(hits))>> >>

\* SCORE_REGEX (\d+)\s*<points label>
Xyd_SCORE_REGEX(s) ==
  LET lit == <<"U+5206">>
      d(i) == RunAt(s, i, Nd)
      hits == {i \in 0..Len(s) :
                 /\ d(i) # <<>>
                 /\ MatchAt(s, i + Len(d(i)) + Len(RunAt(s, i + Len(d(i)), White)), lit)}
  IN  IF hits = {} THEN <<>> ELSE <<d(Least(hits))>>

\* XinyouduiExtractor::extract_code
RECURSIVE join_lines(_)
join_lines(lines) ==
  IF Len(lines) = 1 THEN lines[1]
  ELSE lines[1] \o <<"\n">> \o join_lines(Tail(lines))

\* a faulty variant, which the properties reject: the lines joined with no
\* newline after the last
MutCodeNoFinalNewline(doc) ==
  LET els == select(doc, <<Sel("*", {<<"c","m","-","l","i","n","e">>})>>)
      code_lines == [k \in 1..Len(els) |-> trim_end(text(doc, els[k]))]
  IN  IF code_lines = <<>> THEN <<>> ELSE join_lines(code_lines)

Xyd_extract_code(doc) ==
  LET els == select(doc, <<Sel("*", {<<"c","m","-","l","i","n","e">>})>>)
      code_lines == [k \in 1..Len(els) |-> trim_end(text(doc, els[k]))]
  IN  IF code_lines = <<>> THEN <<>>
      ELSE join_lines(code_lines) \o <<"\n">>

\* XinyouduiExtractor::extract_pid_from_page
Xyd_extract_pid_from_page(doc) ==
  LET found == SelectSeq(select(doc, <<Sel("*", {<<"a","c","-","a","n","t","-","t","a","g">>})>>),
                 LAMBDA e : Xyd_PROBLEM_REGEX(text(doc, e)) # <<>>)
  IN  IF found = <<>> THEN <<>> ELSE Xyd_PROBLEM_REGEX(text(doc, found[1]))

\* a faulty variant, which the properties reject: the problem number of the
\* url first, the page after it
MutPidUrlFirst(url, doc) ==
  IF Xyd_RECORD_REGEX(url) # <<>> THEN Xyd_RECORD_REGEX(url)[1]
  ELSE unwrap_or(Xyd_extract_pid_from_page(doc), <<>>)

\* XinyouduiExtractor::extract_pid
Xyd_extract_pid(url, doc) ==
  IF Xyd_extract_pid_from_page(doc) # <<>> THEN Xyd_extract_pid_from_page(doc)[1]
  ELSE unwrap_or(Xyd_RECORD_REGEX(url), <<>>)

\* the selector tr.ac-ant-table-row-selected, first match
Xyd_selected_row(doc) ==
  next(select(doc, <<Sel("tr", {<<"a","c","-","a","n","t","-","t","a","b","l","e","-","r","o","w","-","s","e","l","e","c","t","e","d">>})>>))

\* XinyouduiExtractor::extract_rid
Xyd_extract_rid(doc) ==
  LET row == Xyd_selected_row(doc)
  IN  IF row # <<>> /\ select_in(doc, row[1], <<Sel("td", {})>>) # <<>>
      THEN trim(text(doc, select_in(doc, row[1], <<Sel("td", {})>>)[1]))
      ELSE <<>>

\* XinyouduiExtractor::extract_language
Xyd_extract_language(doc) ==
  LET row == Xyd_selected_row(doc)
      tds == select_in(doc, row[1], <<Sel("td", {})>>)
  IN  IF row # <<>> /\ Len(tds) >= 2
      THEN unwrap_or(SubmissionLanguage_from_str(trim(text(doc, tds[2]))), "Cpp17")
      ELSE SubmissionLanguage_default

\* XinyouduiExtractor::extract_status_and_score
Xyd_extract_status_and_score(doc) ==
  LET row == Xyd_selected_row(doc)
      tds == select_in(doc, row[1], <<Sel("td", {})>>)
      caps == Xyd_SCORE_REGEX(text(doc, tds[4]))
  IN  IF row # <<>>
      THEN [status |-> IF Len(tds) >= 3
                       THEN unwrap_or(SubmissionStatus_from_str(
                                        trim(text(doc, tds[3]))), "Unknown")
                       ELSE SubmissionStatus_default,
            score |-> IF Len(tds) >= 4 /\ caps # <<>>
                      THEN unwrap_or(i32_from_digits(caps[1]), 0)
                      ELSE 0]
      ELSE [status |-> SubmissionStatus_default, score |-> 0]

\* XinyouduiExtractor::extract_time_and_memory
Xyd_extract_time_and_memory(doc) ==
  LET divs == select(doc, <<Sel("*", {<<"_","c","o","m","p","i","l","a","t","i","o","n","_","1","f","8","c","m","_","5","3">>})>>)
      caps == Xyd_TIME_MEM_REGEX(text(doc, divs[1]))
  IN  IF divs # <<>> /\ caps # <<>>
      THEN [total_time |-> unwrap_or(i32_from_digits(caps[1][1]), 0),
            max_memory |-> unwrap_or(i32_from_digits(caps[1][2]), 0)]
      ELSE [total_time |-> 0, max_memory |-> 0]

\* XinyouduiExtractor::extract_partial
Xyd_extract_partial(url, content) ==
  LET submission(code, pid, rid, language, ss, tm) ==
        Submission(code, pid, rid, <<"x","y","d">>, language, ss.status,
                   tm.total_time, tm.max_memory, ss.score)
  \* document is the one value of parse_document(content)
  IN  CHOOSE sub \in
        {submission(Xyd_extract_code(document), Xyd_extract_pid(url, document),
                    Xyd_extract_rid(document), Xyd_extract_language(document),
                    Xyd_extract_status_and_score(document),
                    Xyd_extract_time_and_memory(document)) :
           document \in {parse_document(content)}} : TRUE

\* a faulty variant, which the properties reject: the validation with rid
\* checked before pid
MutXydValidateRidFirst(sub) ==
  IF sub.rid = <<>>
  THEN ExtractError_with_partial("MissingField", "rid", sub)
  ELSE IF sub.pid = <<>>
  THEN ExtractError_with_partial("MissingField", "pid", sub)
  ELSE IF sub.code = <<>>
  THEN ExtractError_with_partial("MissingField", "code", sub)
  ELSE NoResult

\* XinyouduiExtractor::validate_submission: Ok is NoResult
Xyd_validate_submission(sub) ==
  IF sub.pid = <<>>
  THEN ExtractError_with_partial("MissingField", "pid", sub)
  ELSE IF sub.rid = <<>>
  THEN ExtractError_with_partial("MissingField", "rid", sub)
  ELSE IF sub.code = <<>>
  THEN ExtractError_with_partial("MissingField", "code", sub)
  ELSE NoResult

\* <XinyouduiExtractor as Extractor>::extract
Xyd_extract(url, content) ==
  LET validated(submission) ==
        validate_then_ok(Xyd_validate_submission(submission), submission)
  IN  IF content_trim_is_empty(content) THEN ExtractError_new("EmptyContent")
      ELSE validated(Xyd_extract_partial(url, content))

----------------------------------------------------------------------------
(* Pages: the markup of the three sites, after the fixtures of the         *)
(* extractors' tests, with each part optional (<<>> leaves it out, <<v>>   *)
(* puts it in with text v).                                                *)

Txt(s) == IF s = <<>> THEN <<>> ELSE <<T(s)>>

Span(cls, s) == E("span", cls, NoAttrs, Txt(s))

\* <div class="field"><span class="key">key</span><span class="value">v</span></div>
LuoguField(key, v) ==
  IF v = <<>> THEN <<>>
  ELSE <<E("div", {<<"f","i","e","l","d">>}, NoAttrs,
           <<Span({<<"k","e","y">>}, key), Span({<<"v","a","l","u","e">>}, v[1])>>)>>

\* <div> <span>label</span> <span>v</span> </div>
LuoguRow(label, v) ==
  IF v = <<>> THEN <<>>
  ELSE <<E("div", {}, NoAttrs,
           <<T(<<"\n">>), Span({}, label), T(<<"\n">>), Span({}, v[1]),
             T(<<"\n">>)>>)>>

LuoguPage(lang, time, mem, status, score, link, code) ==
  <<E("div", {<<"s","t","a","t">>, <<"c","o","l","o","r","-","i","n","v","e","r","s","e">>}, NoAttrs,
      LuoguField(<<"U+7F16","U+7A0B","U+8BED","U+8A00">>, lang) \o LuoguField(<<"U+7528","U+65F6">>, time)
        \o LuoguField(<<"U+5185","U+5B58">>, mem)),
    E("div", {<<"i","n","f","o","-","r","o","w","s">>}, NoAttrs,
      LuoguRow(<<"U+8BC4","U+6D4B","U+72B6","U+6001">>, status) \o LuoguRow(<<"U+8BC4","U+6D4B","U+5206","U+6570">>, score))>>
  \o (IF link = <<>> THEN <<>>
      ELSE <<E("a", {}, [href |-> link[1]], <<T(<<"P","4","1","9","8">>)>>)>>)
  \o (IF code = <<>> THEN <<>>
      ELSE <<E("pre", {}, NoAttrs,
               <<E("code", {<<"l","a","n","g","u","a","g","e","-","c","p","p">>}, NoAttrs, Txt(code[1]))>>)>>)

\* <tr><th>label</th><td class="cls">v</td></tr>
VjudgeInfoRow(label, cls, v) ==
  IF v = <<>> THEN <<>>
  ELSE <<E("tr", {}, NoAttrs,
           <<E("th", {}, NoAttrs, <<T(label)>>), E("td", {cls}, NoAttrs, Txt(v[1]))>>)>>

VjudgeLink(href) ==
  IF href = <<>> THEN <<>>
  ELSE <<E("a", {}, [href |-> href[1]], <<T(<<"#">>)>>)>>

VjudgeCell(cls, v) ==
  IF v = <<>> THEN <<>> ELSE <<E("td", {cls}, NoAttrs, Txt(v[1]))>>

VjudgePage(slink, plink, status, time, mem, lang, code, rowid, runtime, memory) ==
  <<E("div", {<<"m","o","d","a","l","-","c","o","n","t","e","n","t">>}, NoAttrs,
      <<E("h5", {<<"m","o","d","a","l","-","t","i","t","l","e">>}, NoAttrs, VjudgeLink(slink) \o VjudgeLink(plink)),
        E("div", {}, [id |-> <<"i","n","f","o","-","p","a","n","e","l">>],
          <<E("table", {}, NoAttrs,
              <<E("tbody", {}, NoAttrs,
                  VjudgeInfoRow(<<"U+8BC4","U+6D4B","U+7ED3","U+679C">>, <<"s","t","a","t","u","s">>, status)
                    \o VjudgeInfoRow(<<"U+8017","U+65F6">>, <<"t","i","m","e">>, time)
                    \o VjudgeInfoRow(<<"U+5185","U+5B58","U+6D88","U+8017">>, <<"m","e","m","o","r","y">>, mem)
                    \o VjudgeInfoRow(<<"U+8BED","U+8A00">>, <<"l","a","n","g">>, lang))>>)>>)>>
        \o (IF code = <<>> THEN <<>>
            ELSE <<E("div", {}, [id |-> <<"c","o","d","e","-","p","a","n","e","l">>],
                     <<E("pre", {}, NoAttrs,
                         <<E("code", {}, NoAttrs, Txt(code[1]))>>)>>)>>)),
    E("table", {}, NoAttrs,
      <<E("tbody", {}, NoAttrs,
          <<E("tr", {}, IF rowid = <<>> THEN NoAttrs ELSE [id |-> rowid[1]],
              <<E("td", {<<"o","j">>}, NoAttrs, <<T(<<"U","E","S","T","C">>)>>)>>
                \o VjudgeCell(<<"r","u","n","t","i","m","e">>, runtime)
                \o VjudgeCell(<<"m","e","m","o","r","y">>, memory))>>
            \o [k \in 1..(Len(rowid) - 1) |->
                  E("tr", {}, [id |-> rowid[k + 1]],
                    <<E("td", {<<"o","j">>}, NoAttrs, <<T(<<"U","E","S","T","C">>)>>)>>)])>>)>>

XydCells(tds) == [k \in 1..Len(tds) |-> E("td", {}, NoAttrs, Txt(tds[k]))]

XydPage(tag, row, lines, comp) ==
  <<E("div", {<<"_","t","a","g","s","_","1","0","u","p","j","_","6","8">>}, NoAttrs,
      (IF tag = <<>> THEN <<>> ELSE <<Span({<<"a","c","-","a","n","t","-","t","a","g">>}, tag[1])>>)
        \o <<Span({<<"a","c","-","a","n","t","-","t","a","g">>, <<"a","c","-","a","n","t","-","t","a","g","-","b","l","u","e">>}, <<"U+5FC5","U+505A","U+9898">>)>>),
    E("table", {}, NoAttrs,
      <<E("tbody", {}, NoAttrs,
          IF row = <<>> THEN <<>>
          ELSE <<E("tr", {<<"a","c","-","a","n","t","-","t","a","b","l","e","-","r","o","w">>, <<"a","c","-","a","n","t","-","t","a","b","l","e","-","r","o","w","-","s","e","l","e","c","t","e","d">>},
                   NoAttrs, XydCells(row[1]))>>)>>),
    E("div", {<<"c","m","-","c","o","n","t","e","n","t">>}, NoAttrs,
      [k \in 1..Len(lines) |->
         E("div", {<<"c","m","-","l","i","n","e">>}, NoAttrs, Txt(lines[k]))])>>
  \o (IF comp = <<>> THEN <<>>
      ELSE <<E("div", {<<"_","c","o","m","p","i","l","a","t","i","o","n","_","1","f","8","c","m","_","5","3">>}, NoAttrs, Txt(comp[1]))>>)

----------------------------------------------------------------------------
(* The program: threads calling the public functions create_extractor and  *)
(* extract of factory.rs, which share the lazily built FACTORY behind its  *)
(* mutex.                                                                  *)

NThreads == 2

Threads == 1..NThreads

VARIABLES
  factory,   \* FACTORY: <<>> before the Lazy is forced, then <<the factory>>
  lock,      \* the Mutex of FACTORY: 0, or the thread that holds the guard
  pc,        \* where each thread is in its call
  op,        \* the function each thread called
  url,       \* its url argument
  content,   \* its content argument (extract only)
  candidates, \* the local candidates of ExtractorFactory::create_extractor
  ext,       \* what ExtractorFactory::create_extractor returned to it
  result,    \* what the call returned
  norm       \* a call of a normalizer on its own: function, argument, result

vars == <<factory, lock, pc, op, url, content, candidates, ext, result, norm>>

\* no normalizer call
NoNorm == [fn |-> "none", arg |-> <<>>, out |-> <<>>, pc |-> "idle"]

\* dyn Extractor::extract, dispatched on the instance the creator built
Extractor_extract(name, u, c) ==
  CASE name = LuoguExtractor.name -> Luogu_extract(u, c)
    [] name = VjudgeExtractor.name -> Vjudge_extract(u, c)
    [] name = XinyouduiExtractor.name -> Xyd_extract(u, c)

Init ==
  /\ factory = <<>>
  /\ lock = 0
  /\ pc = [t \in Threads |-> "idle"]
  /\ op = [t \in Threads |-> "none"]
  /\ url = [t \in Threads |-> <<>>]
  /\ content = [t \in Threads |-> <<>>]
  /\ candidates = [t \in Threads |-> <<>>]
  /\ ext = [t \in Threads |-> NoResult]
  /\ result = [t \in Threads |-> NoResult]
  /\ norm = NoNorm

\* a caller enters create_extractor(u) or extract(u, c)
Call(t, o, u, c) ==
  /\ pc[t] \in {"idle", "done"}
  /\ pc' = [pc EXCEPT ![t] = "force"]
  /\ op' = [op EXCEPT ![t] = o]
  /\ url' = [url EXCEPT ![t] = u]
  /\ content' = [content EXCEPT ![t] = c]
  /\ candidates' = [candidates EXCEPT ![t] = <<>>]
  /\ ext' = [ext EXCEPT ![t] = NoResult]
  /\ result' = [result EXCEPT ![t] = NoResult]
  /\ UNCHANGED <<factory, lock, norm>>

\* a faulty variant, which the properties reject: every deref runs the
\* initializer, which extends the extractors of the factory there is
MutForceExtendsAgain(t) ==
  /\ pc[t] = "force"
  /\ factory' = IF factory = <<>> THEN <<ExtractorFactory_new>>
                ELSE <<[extractors |-> factory[1].extractors \o registry_items]>>
  /\ pc' = [pc EXCEPT ![t] = "lock"]
  /\ UNCHANGED <<lock, op, url, content, candidates, ext, result, norm>>

\* the deref of FACTORY: Lazy::force runs ExtractorFactory::new once
Force(t) ==
  /\ pc[t] = "force"
  /\ factory' = IF factory = <<>> THEN <<ExtractorFactory_new>> ELSE factory
  /\ pc' = [pc EXCEPT ![t] = "lock"]
  /\ UNCHANGED <<lock, op, url, content, candidates, ext, result, norm>>

\* FACTORY.lock().unwrap()
Lock(t) ==
  /\ pc[t] = "lock"
  /\ lock = 0
  /\ lock' = t
  /\ pc' = [pc EXCEPT ![t] = "select"]
  /\ UNCHANGED <<factory, op, url, content, candidates, ext, result, norm>>

\* a faulty variant, which the properties reject: the sort done in place on
\* the extractors of the shared factory
MutSelectSortsTheRegistry(t) ==
  /\ pc[t] = "select"
  /\ candidates' = [candidates EXCEPT
                      ![t] = create_extractor_candidates(factory[1], url[t])]
  /\ ext' = [ext EXCEPT
               ![t] = ExtractorFactory_create_extractor(candidates'[t], url[t])]
  /\ factory' = <<[extractors |->
                     [i \in 1..Len(candidates'[t]) |-> candidates'[t][i].item]]>>
  /\ pc' = [pc EXCEPT ![t] = "unlock"]
  /\ UNCHANGED <<lock, op, url, content, result, norm>>

\* .create_extractor(url), under the guard
Select(t) ==
  /\ pc[t] = "select"
  /\ candidates' = [candidates EXCEPT
                      ![t] = create_extractor_candidates(factory[1], url[t])]
  /\ ext' = [ext EXCEPT
               ![t] = ExtractorFactory_create_extractor(candidates'[t], url[t])]
  /\ pc' = [pc EXCEPT ![t] = "unlock"]
  /\ UNCHANGED <<factory, lock, op, url, content, result, norm>>

\* a faulty variant, which the properties reject: the guard is kept when
\* the factory has found no extractor
MutUnlockLeaksOnNoExtractor(t) ==
  /\ pc[t] = "unlock"
  /\ lock' = IF ext[t].kind = "NoExtractor" THEN lock ELSE 0
  /\ IF op[t] = "create_extractor" \/ ext[t].kind = "NoExtractor"
     THEN /\ result' = [result EXCEPT ![t] = ext[t]]
          /\ pc' = [pc EXCEPT ![t] = "done"]
     ELSE /\ pc' = [pc EXCEPT ![t] = "run"]
          /\ UNCHANGED result
  /\ UNCHANGED <<factory, op, url, content, candidates, ext, norm>>

\* a faulty variant, which the properties reject: extract keeps the guard
\* while the extractor runs, and no step drops it
MutUnlockKeepsGuard(t) ==
  /\ pc[t] = "unlock"
  /\ IF op[t] = "create_extractor" \/ ext[t].kind = "NoExtractor"
     THEN /\ lock' = 0
          /\ result' = [result EXCEPT ![t] = ext[t]]
          /\ pc' = [pc EXCEPT ![t] = "done"]
     ELSE /\ pc' = [pc EXCEPT ![t] = "run"]
          /\ UNCHANGED <<lock, result>>
  /\ UNCHANGED <<factory, op, url, content, candidates, ext, norm>>

\* a faulty variant, which the properties reject: extract looks at the
\* content before it looks at what the factory returned
MutUnlockChecksContentFirst(t) ==
  /\ pc[t] = "unlock"
  /\ lock' = 0
  /\ IF op[t] = "create_extractor" \/ ext[t].kind = "NoExtractor"
     THEN /\ result' = [result EXCEPT
                          ![t] = IF op[t] = "extract" /\ content_trim_is_empty(content[t])
                                 THEN ExtractError_new("EmptyContent")
                                 ELSE ext[t]]
          /\ pc' = [pc EXCEPT ![t] = "done"]
     ELSE /\ pc' = [pc EXCEPT ![t] = "run"]
          /\ UNCHANGED result
  /\ UNCHANGED <<factory, op, url, content, candidates, ext, norm>>

\* the guard is a temporary of the statement: it is dropped at its end.
\* create_extractor returns what the factory returned; extract returns its
\* error (the ? operator) or goes on to run the extractor.
Unlock(t) ==
  /\ pc[t] = "unlock"
  /\ lock' = 0
  /\ IF op[t] = "create_extractor" \/ ext[t].kind = "NoExtractor"
     THEN /\ result' = [result EXCEPT ![t] = ext[t]]
          /\ pc' = [pc EXCEPT ![t] = "done"]
     ELSE /\ pc' = [pc EXCEPT ![t] = "run"]
          /\ UNCHANGED result
  /\ UNCHANGED <<factory, op, url, content, candidates, ext, norm>>

\* ext.extract(url, content)
Run(t) ==
  /\ pc[t] = "run"
  /\ result' = [result EXCEPT ![t] = Extractor_extract(ext[t].name, url[t], content[t])]
  /\ pc' = [pc EXCEPT ![t] = "done"]
  /\ UNCHANGED <<factory, lock, op, url, content, candidates, ext, norm>>

----------------------------------------------------------------------------
(* Inputs.                                                                 *)

\* urls for the ranking: concatenations of at most MaxFrags fragments, among
\* them every name and tag, in other cases, split in two, cut short, and
\* with a capital letter whose lower case is two characters or an ASCII
\* letter
MaxFrags == 2

RECURSIVE UrlsUpTo(_)
UrlsUpTo(n) ==
  LET Frags ==
        {<<"l","u","o","g","u">>, <<"L","u","o","G","u">>, <<"U+6D1B","U+8C37">>, <<"U+6D1B">>, <<"v","j","u","d","g","e">>, <<"V","J">>, <<"v">>, <<"j","u","d","g","e">>,
        <<"V","i","r","t","u","a","l"," ","J","u","d","g","e">>, <<"x","y","d">>, <<"x","i","n","y","o","u","d","u","i">>, <<"U+4FE1","U+53CB","U+961F">>, <<"/">>,
         <<"x","i","n","y","o","u","d","u","U+0130">>, <<"L","U","O","G","U","U+212A">>}
  IN  IF n = 0 THEN {<<>>}
      ELSE UrlsUpTo(n - 1) \cup {u \o f : u \in UrlsUpTo(n - 1), f \in Frags}

\* urls of the three sites, with and without the record part, and a url of
\* no site
LuoguUrls == {<<"h","t","t","p","s",":","/","/","w","w","w",".","l","u","o","g","u",".","c","o","m",".","c","n","/","r","e","c","o","r","d","/","2","4">>, <<"h","t","t","p","s",":","/","/","w","w","w",".","l","u","o","g","u",".","c","o","m",".","c","n","/">>}

VjudgeUrls == {<<"h","t","t","p","s",":","/","/","v","j","u","d","g","e",".","n","e","t","/","s","o","l","u","t","i","o","n","/","6","5">>, <<"h","t","t","p","s",":","/","/","v","j","u","d","g","e",".","n","e","t","/">>}

XydUrls == {<<"h","t","t","p","s",":","/","/","w","w","w",".","x","i","n","y","o","u","d","u","i",".","c","o","m","/","a","c","/","c","o","n","t","e","s","t","/","7","A","/","p","r","o","b","l","e","m","/","1","5">>,
            <<"h","t","t","p","s",":","/","/","w","w","w",".","x","i","n","y","o","u","d","u","i",".","c","o","m","/">>}

OtherUrl == <<"h","t","t","p","s",":","/","/","e","x","a","m","p","l","e",".","c","o","m","/","r","e","c","o","r","d","/","2","4">>

\* an optional part of a page: left out, well-formed, or not parseable
Part(good, bad) == {<<>>, <<good>>, <<bad>>}

Some(v) == {<<>>, <<v>>}

Code == <<"i","n","t"," ","x",";">>

\* the parts of the luogu pages <<lang, time, mem, status, score, link, code>>:
\* the required parts in every combination with the optional parts all left
\* out, all well-formed or all unparseable; the optional parts in every
\* combination with the required parts present; a time and a memory size
\* below zero, with and without the problem link; and each verdict as it is
\* written
LuoguParts ==
  {o \o <<link, code>> :
     o \in {<<<<>>, <<>>, <<>>, <<>>, <<>>>>,
            <<<<<<"C","+","+","1","4">>>>, <<<<"2",".","3","3","s">>>>, <<<<"1",".","5","5","M","B">>>>, <<<<"A","c","c","e","p","t","e","d">>>>, <<<<"1","0","0">>>>>>,
            <<<<<<>>>>, <<<<"a","b","c">>>>, <<<<"x">>>>, <<<<"?","?","?">>>>, <<<<"x">>>>>>},
     link \in {<<>>, <<<<"/","p","r","o","b","l","e","m","/","P","4","1","9","8">>>>, <<<<"/","p","r","o","b","l","e","m","/","x">>>>},
     code \in {<<>>, <<Code>>, <<<<" ">>>>}}
  \cup
  {<<lang, time, mem, status, score, <<<<"/","p","r","o","b","l","e","m","/","1","2">>>>, <<Code>>>> :
     lang \in Part(<<"C","+","+","1","4">>, <<>>), time \in Part(<<"2",".","3","3","s">>, <<"a","b","c">>),
     mem \in Part(<<"1",".","5","5","M","B">>, <<"x">>), status \in Part(<<"A","c","c","e","p","t","e","d">>, <<"?","?","?">>),
     score \in Part(<<"1","0","0">>, <<"x">>)}
  \cup
  {<<<<<<"C","+","+","1","4">>>>, <<time>>, <<mem>>, <<<<"A","c","c","e","p","t","e","d">>>>, <<<<"1","0","0">>>>, link, <<Code>>>> :
     time \in {<<"-","5","m","s">>, <<"2",".","3","3","s">>}, mem \in {<<"-","1","m">>, <<"1",".","5","5","M","B">>},
     link \in Some(<<"/","p","r","o","b","l","e","m","/","1","2">>)}
  \cup
  {<<<<>>, <<>>, <<>>, <<serialize(v)>>, <<>>, <<<<"/","p","r","o","b","l","e","m","/","1","2">>>>, <<Code>>>> :
     v \in SubmissionStatus}

LuoguPageOf == [p \in LuoguParts |-> LuoguPage(p[1], p[2], p[3], p[4], p[5], p[6], p[7])]

\* the parts of the vjudge pages <<slink, plink, status, time, mem, lang, code,
\* rowid, runtime, memory>>, rowid being the ids of the rows of the table of
\* submissions, one after the other
VjudgeParts ==
  {<<slink, plink>> \o o \o <<code, rowid, <<>>, <<>>>> :
     o \in {<<<<>>, <<>>, <<>>, <<>>>>,
            <<<<<<"A","c","c","e","p","t","e","d">>>>, <<<<"1","8","8","6","m","s">>>>, <<<<"1","0","7","5","2","k","B">>>>, <<<<"C","+","+","1","4">>>>>>,
            <<<<<<"?","?","?">>>>, <<<<"a","b","c">>>>, <<<<"x">>>>, <<<<>>>>>>,
            <<<<<<"W","r","o","n","g"," ","A","n","s","w","e","r">>>>, <<<<"1","2","m","s">>>>, <<<<"6","4","k","B">>>>, <<<<"C","+","+","1","4">>>>>>},
     slink \in Some(<<"/","s","o","l","u","t","i","o","n","/","6","5">>), plink \in Some(<<"/","p","r","o","b","l","e","m","/","U","E","S","T","C","-","1","2","6">>),
     code \in {<<>>, <<Code>>, <<<<" ">>>>}, rowid \in Some(<<"1","2">>)}
  \cup
  {<<slink, <<<<"/","p","r","o","b","l","e","m","/","A">>>>, <<<<"A","c","c","e","p","t","e","d">>>>, <<>>, <<>>, <<>>, <<Code>>, rowid, <<>>, <<>>>> :
     slink \in {<<>>, <<<<"/","s","o","l","u","t","i","o","n","/">>>>, <<<<"/","s","o","l","u","t","i","o","n","/","x">>>>, <<<<"/","s","o","l","u","t","i","o","n","/","7","7">>>>},
     rowid \in {<<>>, <<<<>>>>, <<<<"1","2">>>>, <<<<>>, <<"1","2">>>>, <<<<"x","1">>, <<"1","2">>>>, <<<<"3","4">>, <<"1","2">>>>,
               <<<<"U+FF11","U+FF12">>, <<"1","2">>>>}}
  \cup
  {<<<<>>, <<<<"/","p","r","o","b","l","e","m","/","A">>>>, <<>>, time, mem, <<>>, <<Code>>, <<<<"1","2">>>>, <<<<"1","8","8","6">>>>, memory>> :
     time \in Some(<<"1","2","m","s">>), mem \in Some(<<"6","4","k","B">>), memory \in Some(<<"1","0",".","8">>)}
  \cup
  {<<<<>>, <<<<"/","p","r","o","b","l","e","m","/","A">>>>, status, time, mem, lang, <<Code>>, <<>>,
     runtime, memory>> :
     status \in Part(<<"P","a","r","t","i","a","l","l","y"," ","C","o","r","r","e","c","t">>, <<"?","?","?">>), time \in Part(<<"1","8","8","6","m","s">>, <<"a","b","c">>),
     mem \in Part(<<"1","0","7","5","2","k","B">>, <<"x">>), lang \in Part(<<"C","+","+","1","4">>, <<>>),
     runtime \in Part(<<"1","8","8","6">>, <<"-">>), memory \in Some(<<"1","0",".","8">>)}

VjudgePageOf ==
  [p \in VjudgeParts |->
     VjudgePage(p[1], p[2], p[3], p[4], p[5], p[6], p[7], p[8], p[9], p[10])]

\* the parts of the xyd pages <<tag, row, lines, comp>>
XydParts ==
  {<<tag, row, lines, comp>> :
     tag \in Part(<<"U+9898","U+76EE","I","D","U+FF1A","2","3">>, <<"U+9898","U+76EE">>)
             \cup {<<<<"U+9898","U+76EE","I","D","U+FF1A">>>>,
                   <<<<"U+9898","U+76EE","I","D","U+FF1A","U+FF12","3">>>>},
     row \in {<<>>, <<<<>>>>, <<<<<<>>>>>>, <<<<<<"2","5">>>>>>,
              <<<<<<"2","5">>, <<"C","+","+","1","4">>>>>>, <<<<<<"2","5">>, <<"C","+","+","1","4">>, <<"A","c","c","e","p","t","e","d">>>>>>,
              <<<<<<"2","5">>, <<"C","+","+","1","4">>, <<"A","c","c","e","p","t","e","d">>, <<"1","0","0"," ","U+5206">>>>>>,
              <<<<<<"2","5">>, <<>>, <<"?","?","?">>, <<"x">>>>>>},
     lines \in {<<>>, <<Code>>, <<<<"a"," "," ">>, <<"b">>>>, <<<<>>>>, <<<<" ","x">>, <<>>, <<"y","\t","U+00A0"," ">>>>},
     comp \in Part(<<"t","i","m","e",":"," ","3","5","0","m","s",","," ","m","e","m","o","r","y",":"," ","1","4","1","6","2","8","k","b">>, <<"t","i","m","e",":"," ","m","s">>)}

XydPageOf == [p \in XydParts |-> XydPage(p[1], p[2], p[3], p[4])]

\* the code and pre elements of the luogu pages that vary them: marked with a
\* language- class or not, with text, without, and in either order
LuoguCodeBlocks ==
  {<<E("pre", {}, NoAttrs, Txt(<<"p">>))>>,
   <<E("code", {}, NoAttrs, Txt(<<"a">>))>>,
   <<E("pre", {}, NoAttrs, Txt(<<"p">>)), E("code", {}, NoAttrs, Txt(<<" ","a","\n">>))>>,
   <<E("code", {}, NoAttrs, Txt(<<"a">>)), E("code", {<<"l","a","n","g","u","a","g","e","-","c","p","p">>}, NoAttrs, Txt(<<"b">>))>>,
   <<E("code", {}, NoAttrs, Txt(<<"a">>)), E("code", {<<"h","l","j","s">>, <<"l","a","n","g","u","a","g","e","-","c">>}, NoAttrs, Txt(<<"b"," ">>)),
     E("code", {<<"l","a","n","g","u","a","g","e","-","c","p","p">>}, NoAttrs, Txt(<<"c">>))>>,
   <<E("code", {<<"l","a","n","g","u","a","g","e">>}, NoAttrs, Txt(<<"a">>)), E("code", {}, NoAttrs, Txt(<<"b">>))>>,
   <<E("code", {<<"l","a","n","g","u","a","g","e","-","c","p","p">>}, NoAttrs, Txt(<<>>)), E("code", {}, NoAttrs, Txt(<<"a">>))>>,
   <<E("code", {}, NoAttrs, Txt(<<" ">>)), E("pre", {}, NoAttrs, Txt(<<"p">>))>>,
   <<E("pre", {<<"l","a","n","g","u","a","g","e","-","c","p","p">>}, NoAttrs, Txt(<<>>)), E("pre", {}, NoAttrs, Txt(<<"p">>))>>,
   <<E("div", {<<"l","a","n","g","u","a","g","e","-","c","p","p">>}, NoAttrs, Txt(<<"d">>))>>}

\* the (url, content) pairs extract is called with: the pages of the sites
\* under their urls; contents without an element under every url; the luogu
\* pages that vary the code elements; a luogu page under the url of no site;
\* and pages, under urls, with digits and white space beyond ASCII, with
\* character references, carriage returns, a comment and the doctype
ExtractInputs ==
  LET Comment == [T(<<" ">>) EXCEPT !.tag = "#comment"]
      Doctype == [T(<<"h","t","m","l">>) EXCEPT !.tag = "#doctype"]
      Bare == {<<>>, <<T(<<" ">>)>>, <<T(<<"\n", " ", "\t">>)>>, <<T(Code)>>,
               <<T(<<"&","#","3","2",";">>)>>, <<T(<<"\r","\n">>)>>,
               <<T(<<"U+00A0">>)>>, <<T(<<"U+3000","\f","U+000B","U+2028">>)>>,
               <<T(<<"&","n","b","s","p",";">>)>>, <<T(<<"U+200B">>)>>,
               <<Comment>>, <<Doctype>>, <<T(<<" ">>), Comment, T(<<"\n">>)>>}
      Field(key, v) ==
        E("div", {<<"f","i","e","l","d">>}, NoAttrs,
          <<Span({<<"k","e","y">>}, key), Span({<<"v","a","l","u","e">>}, v)>>)
      LuoguEdge ==
        <<Doctype,
          E("div", {<<"s","t","a","t">>, <<"c","o","l","o","r","-","i","n","v","e","r","s","e">>}, NoAttrs,
            <<Field(<<"U+7F16","U+7A0B","U+8BED","U+8A00">>, <<"C","+","+"," ","N","O","U+0130"," ","L","i","n","u","x">>),
              Field(<<"U+7528","U+65F6","U+00A0">>, <<"1",".","0","0","5","s">>),
              Field(<<"\r","\n","U+5185","U+5B58","&","#","3","2",";">>, <<"\r","1","K","\r">>)>>),
          Comment,
          E("div", {<<"i","n","f","o","-","r","o","w","s">>}, NoAttrs,
            LuoguRow(<<"U+8BC4","U+6D4B","U+72B6","U+6001">>, <<<<"A","c","c","e","p","t","e","d","&","#","x","A","0",";">>>>)
              \o LuoguRow(<<"U+8BC4","U+6D4B","U+5206","U+6570">>, <<<<"U+0661","U+0662"," ","1","0","0">>>>)),
          E("a", {}, [href |-> <<"/","p","r","o","b","l","e","m","/","P","1","U+0661">>], <<>>),
          E("code", {<<"l","a","n","g","u","a","g","e","-","c","p","p">>}, NoAttrs,
            <<T(<<"a","&","l","t",";","b","&","a","m","p",";","&","a","m","p",";","c","\r","\n">>)>>)>>
      VjudgeEdge ==
        VjudgePage(<<>>, <<<<"/","p","r","o","b","l","e","m","/","A","&","#","4","5",";","1">>>>, <<<<"A","c","c","e","p","t","e","d">>>>,
                   <<<<"5","U+00A0","m","s">>>>, <<<<"1","K">>>>, <<<<"C","+","+","1","7","U+3000">>>>,
                   <<<<"x"," ","&","g","t",";"," ","1",";">>>>, <<<<"U+FF11","U+FF12">>, <<"&","#","5","1",";","4">>>>,
                   <<<<"\r","0",".","0","0","0","9","s","\r">>>>, <<<<"1",".","0","0","5","m">>>>)
      XydEdge ==
        XydPage(<<<<"U+9898","U+76EE","I","D","U+FF1A","U+3000","U+FF12","U+FF13">>>>,
                <<<<<<"U+FF12","U+FF15">>, <<"C","+","+","1","4","\r">>, <<"A","c","c","e","p","t","e","d">>, <<"U+FF11","U+FF10","U+FF10","U+00A0","U+5206">>>>>>,
                <<<<"a","U+00A0">>, <<"b","&","g","t",";","c","\r">>>>,
                <<<<"t","i","m","e",":"," ","U+FF13","U+FF15","U+FF10","m","s",","," ","m","e","m","o","r","y",":"," ","U+FF11","U+FF14","k","b">>>>)
  IN  (LuoguUrls \X {LuoguPageOf[p] : p \in LuoguParts})
        \cup (VjudgeUrls \X {VjudgePageOf[p] : p \in VjudgeParts})
        \cup (XydUrls \X {XydPageOf[p] : p \in XydParts})
        \cup ((LuoguUrls \cup VjudgeUrls \cup XydUrls \cup {OtherUrl}) \X Bare)
        \cup ({<<"h","t","t","p","s",":","/","/","w","w","w",".","l","u","o","g","u",".","c","o","m",".","c","n","/","r","e","c","o","r","d","/","2","4">>}
                \X {LuoguPage(<<>>, <<>>, <<>>, <<>>, <<>>, <<<<"/","p","r","o","b","l","e","m","/","1","2">>>>, <<>>) \o b :
                      b \in LuoguCodeBlocks})
        \cup ({OtherUrl} \X {LuoguPage(<<>>, <<>>, <<>>, <<>>, <<>>,
                                        <<<<"/","p","r","o","b","l","e","m","/","1","2">>>>, <<Code>>)})
        \cup ((LuoguUrls \cup {<<"h","t","t","p","s",":","/","/","w","w","w",".","l","u","o","g","u",".","c","o","m",".","c","n","/","r","e","c","o","r","d","/","U+FF11","U+FF12">>}) \X {LuoguEdge})
        \cup ((VjudgeUrls \cup {<<"h","t","t","p","s",":","/","/","v","j","u","d","g","e",".","n","e","t","/","s","o","l","u","t","i","o","n","/","U+FF16","U+FF15">>}) \X {VjudgeEdge})
        \cup ((XydUrls \cup {<<"h","t","t","p","s",":","/","/","x","i","n","y","o","u","d","u","i",".","c","o","m","/","a","c","/","c","o","n","t","e","s","t","/","7","A","/","p","r","o","b","l","e","m","/","U+FF11","U+FF15">>})
                \X {XydEdge})

----------------------------------------------------------------------------
(* Specifications.                                                         *)

\* the inputs of the concurrent callers.  create_extractor: a url of xyd and
\* one of no site.  extract: a luogu page under its url, the page without
\* its problem link under a url that vjudge and xyd rank alike, and blank
\* content under the url of no site
CallAny(t) ==
  LET SmallUrls == {<<"x","y","d">>, OtherUrl}
      SmallInputs ==
        {<<<<"h","t","t","p","s",":","/","/","w","w","w",".","l","u","o","g","u",".","c","o","m",".","c","n","/","r","e","c","o","r","d","/","2","4">>,
          LuoguPage(<<>>, <<>>, <<>>, <<>>, <<>>, <<<<"/","p","r","o","b","l","e","m","/","1","2">>>>, <<Code>>)>>,
        <<<<"x","y","d","V","J">>, LuoguPage(<<>>, <<>>, <<>>, <<>>, <<>>, <<>>, <<Code>>)>>,
        <<OtherUrl, <<T(<<" ">>)>>>>}
  IN  \/ \E u \in SmallUrls : Call(t, "create_extractor", u, <<>>)
      \/ \E i \in SmallInputs : Call(t, "extract", i[1], i[2])

\* concurrent callers
Next ==
  \E t \in Threads :
    CallAny(t) \/ Force(t) \/ Lock(t) \/ Select(t) \/ Unlock(t) \/ Run(t)

Spec == Init /\ [][Next]_vars

\* the steps in which caller t computes, selecting its extractor and running
\* it, as they show in pc: Select and Run have no guard but pc, and move it
Computes(t) ==
  /\ pc[t] \in {"select", "run"}
  /\ pc' = [pc EXCEPT ![t] = IF pc[t] = "select" THEN "unlock" ELSE "done"]

\* concurrent callers making one call each
NextOnce ==
  \E t \in Threads :
    \/ pc[t] = "idle" /\ CallAny(t)
    \/ Force(t) \/ Lock(t) \/ Select(t) \/ Unlock(t) \/ Run(t)

\* the callers under a fair scheduler: a caller that can take a step, from
\* some time on at every time, takes one. The lock of std::sync::Mutex is not
\* handed over in any order, so that a caller is only known to get it once
\* it stays free.
SpecFair ==
  /\ Init
  /\ [][NextOnce]_vars
  /\ \A t \in Threads :
       WF_vars(Force(t) \/ Lock(t) \/ Unlock(t)) /\ WF_pc(Computes(t))

\* the state in which thread 1 has entered the call o(u, c) and no other
\* thread has called yet
Entered(o, u, c) ==
  /\ factory = <<>>
  /\ lock = 0
  /\ pc = [t \in Threads |-> IF t = 1 THEN "force" ELSE "idle"]
  /\ op = [t \in Threads |-> IF t = 1 THEN o ELSE "none"]
  /\ url = [t \in Threads |-> IF t = 1 THEN u ELSE <<>>]
  /\ content = [t \in Threads |-> IF t = 1 THEN c ELSE <<>>]
  /\ candidates = [t \in Threads |-> <<>>]
  /\ ext = [t \in Threads |-> NoResult]
  /\ result = [t \in Threads |-> NoResult]
  /\ norm = NoNorm

\* one call of create_extractor or of extract, over the urls of the ranking
InitFactory ==
  LET SmallContents ==
        {<<T(<<" ">>)>>,
        LuoguPage(<<>>, <<>>, <<>>, <<>>, <<>>, <<<<"/","p","r","o","b","l","e","m","/","1","2">>>>, <<Code>>),
        LuoguPage(<<>>, <<>>, <<>>, <<>>, <<>>, <<>>, <<Code>>)}
  IN  \E u \in UrlsUpTo(MaxFrags) :
        \/ Entered("create_extractor", u, <<>>)
        \/ \E c \in SmallContents : Entered("extract", u, c)

NextCall == Force(1) \/ Lock(1) \/ Select(1) \/ Unlock(1) \/ Run(1)

SpecFactory == InitFactory /\ [][NextCall]_vars

\* one call of extract, over the pages
InitExtract == \E i \in ExtractInputs : Entered("extract", i[1], i[2])

SpecExtract == InitExtract /\ [][NextCall]_vars

----------------------------------------------------------------------------
\* the texts the status classifier is called with: the English verdicts as
\* the sites print them, in other cases and spacings, the verdicts in the
\* language of the sites, and texts that are no verdict
EnglishVerdicts ==
  {<<"U","n","k","n","o","w","n">>, <<"A","c","c","e","p","t","e","d">>, <<"W","r","o","n","g"," ","A","n","s","w","e","r">>, <<"P","a","r","t","i","a","l","l","y"," ","C","o","r","r","e","c","t">>,
   <<"R","u","n","t","i","m","e"," ","E","r","r","o","r">>, <<"T","i","m","e"," ","L","i","m","i","t"," ","E","x","c","e","e","d","e","d">>, <<"M","e","m","o","r","y"," ","L","i","m","i","t"," ","E","x","c","e","e","d","e","d">>,
   <<"C","o","m","p","i","l","e"," ","E","r","r","o","r">>}

NativeVerdicts ==
  {<<"U+901A","U+8FC7">>, <<"U+7B54","U+6848","U+9519","U+8BEF">>, <<"U+90E8","U+5206","U+6B63","U+786E">>, <<"U+8FD0","U+884C","U+9519","U+8BEF">>, <<"U+8D85","U+65F6">>, <<"U+8D85","U+5185","U+5B58">>,
   <<"U+7F16","U+8BD1","U+9519","U+8BEF">>, <<"U+672A","U+77E5">>}

\* one call of a normalizer, over the texts.  Verdicts: the English ones as
\* the sites print them, in other cases and spacings, the verdicts in the
\* language of the sites, and texts that are no verdict.  Times and memory
\* sizes: with and without units, in the places and cases the sites print
\* them and elsewhere, signed, fractional, and texts that are no number.
\* Languages: the names as the sites print them, others, and texts that are
\* no name.
InitNormalize ==
  LET StatusTexts ==
        UNION {{s, to_lowercase(s), remove_all(s, <<" ">>),
              to_lowercase(remove_all(s, <<" ">>)), <<" ">> \o s \o <<" ">>} :
             s \in EnglishVerdicts}
        \cup {<<"A","C","C","E","P","T","E","D">>, <<"W","R","O","N","G"," ","A","N","S","W","E","R">>, <<"A","c","C","e","P","t","E","d">>, <<"w"," ","r"," ","o"," ","n"," ","g"," ","a","n","s","w","e","r">>}
        \cup NativeVerdicts
        \cup {<<>>, <<" ">>, <<"A","C">>, <<"a","c","c","e","p","t">>, <<"a","c","c","e","p","t","e","d","!">>, <<"W","r","o","n","g","\n","A","n","s","w","e","r">>, <<"1","0","0">>,
              <<"O","K">>, <<"P","e","n","d","i","n","g">>, <<"J","u","d","g","i","n","g">>, <<"P","r","e","s","e","n","t","a","t","i","o","n"," ","E","r","r","o","r">>, <<"O","u","t","p","u","t"," ","L","i","m","i","t"," ","E","x","c","e","e","d","e","d">>, <<"T","i","m","e"," ","L","i","m","i","t"," ","E","x","c","e","e","d">>,
              <<"U","n","U+212A","n","o","w","n">>,
              <<"A","c","c","e","p","t","e","d","\r">>,
              <<"U+00A0","A","c","c","e","p","t","e","d">>,
              <<"U+FF21","c","c","e","p","t","e","d">>,
              <<"A","C","C","E","P","T","E","U+0130">>,
              <<"W","r","o","n","g","U+00A0","A","n","s","w","e","r">>}
      TimeTexts ==
        {<<"1","0","0","m","s">>, <<"0",".","2","s">>, <<" "," ","5","0"," "," ">>, <<>>, <<" ">>,
        <<"a","b","c">>, <<"m","s">>, <<"s">>, <<"1",".","9","m","s">>, <<"1",".","5">>,
        <<"0",".","0","0","1","5","s">>, <<"1","0","0","M","S">>, <<"2","S">>,
        <<"1","0","0"," ","m","s">>, <<"1"," ","s">>, <<"m","s","1","0","0">>, <<"s","5">>,
        <<"1","s","2">>, <<"1","m","s","2","m","s">>, <<"5","s","m","s">>, <<"-","5","m","s">>,
        <<"-","0",".","5","s">>, <<"-","1",".","9">>, <<"+","3">>, <<"1","e","2","m","s">>,
        <<".","5","s">>, <<"5",".">>, <<"2",".","7","5","s">>, <<"1","2"," ","3">>,
        <<"0",".","0","0","0","9","s">>, <<"1",".","2",".","3">>, <<"5","s","e","c">>,
        <<"5","m","s","e","c">>, <<"5","m","i","n">>, <<"0">>, <<"0","s">>,
        <<"1",".","2","3","4","5","s">>, <<"7"," ","m","s"," ">>, <<"3","s"," ">>, <<"m","s","5","s">>,
        <<"1",".","0","0","5","s">>,
        <<"\r","5","m","s","\r">>,
        <<"5","m","s","\r","\n">>,
        <<"5","U+00A0","m","s">>,
        <<"U+3000","5","m","s">>,
        <<"U+FF15","m","s">>,
        <<"1",".","0","0","0","0","0","0","0","0","0","0","0","0","0","0","0","1","s">>,
        <<"0",".","1","s">>,
        <<"2",".","6","7","5","s">>,
        <<"1","e","4","0","0">>,
        <<"1","e","1","0","0","0","0","0">>,
        <<"5","e","0","0","0","0","0","0","0","0","0","1","m","s">>,
        <<"1","e","-","6","5","5","3","6","1">>,
        <<"1","e","-","4","0","0","s">>,
        <<"2","1","4","7","4","8","3",".","6","4","8","s">>,
        <<"-","2","1","4","7","4","8","3",".","6","4","9","s">>,
        <<"n","a","n">>,
        <<"i","n","f","s">>,
        <<"4",".","3","5","s">>,
        <<"9","0","0","7","1","9","9","2","5","4","7","4","0","9","9","3">>,
        <<"0",".","0","0","0","9","9","9","9","9","9","9","9","9","9","9","9","9","9","9","9","9","9","s">>,
        <<"5","U+212A">>,
        <<"U+000B","7","\f">>}
      MemTexts ==
        {<<"1","M","B">>, <<"5","1","2","K">>, <<"2","5","6">>, <<>>, <<" ">>, <<"a","b","c">>,
        <<"1","m">>, <<"1","m","b">>, <<"2"," ","M","B">>, <<"1",".","5","M","B">>,
        <<"1",".","5","5","M","B">>, <<"1","0","0","k","b">>, <<"1","0","0","K","B">>,
        <<"1",".","9","k">>, <<"2","0","4","8","b">>, <<"2","0","4","8","B">>, <<"1","0","2","3","b">>,
        <<"1","5","3","6","b">>, <<"1","m","b","m","b">>, <<"1","m","m">>, <<"1","k","k">>,
        <<"1","b","b">>, <<"1","m","b","b">>, <<"1","k","b","b">>, <<"1","b","m">>, <<"1","b","k">>,
        <<"-","1","m">>, <<"-","5">>, <<"-","2","0","4","8","b">>, <<" "," ","7"," "," ">>,
        <<"1"," ","k">>, <<"m","b">>, <<"k","b">>, <<"b">>, <<"k">>, <<"m">>, <<"1","g","b">>,
        <<"1","k","b","2">>, <<"1","e","1","k">>, <<"0",".","5","m">>, <<"1",".","7">>,
        <<"1","k","m","b">>, <<"1","m","k","b">>, <<"1","m","b","m">>, <<"0",".","5","k","b">>,
        <<"3"," ","b">>, <<"1","b">>, <<"0">>,
        <<"1","U+212A">>,
        <<"\r","5","k","\r">>,
        <<"5","U+00A0","k","b">>,
        <<"1","U+212A","b">>,
        <<"1",".","0","0","5","m">>,
        <<"U+FF11","k">>,
        <<"1","0","2","3",".","9","9","9","9","9","9","9","9","9","9","9","9","9","b">>,
        <<"0",".","0","0","0","9","7","6","5","6","2","5","m">>,
        <<"2","0","9","7","1","5","2","m">>,
        <<"2","0","9","7","1","5","1",".","9","9","9","5","m">>,
        <<"1","e","4","0","0","b">>,
        <<"1","e","1","0","0","0","0","0","k">>,
        <<"U+2028","5","M","U+2029">>,
        <<"1","U+2126">>,
        <<"n","a","n","m">>}
      LanguageTexts ==
        {serialize(v) : v \in SubmissionLanguage} \cup
        {<<"C","+","+">>, <<"c","+","+">>, <<"C","+","+","1","7"," ","O","2">>, <<"C","+","+","1","4">>,
         <<"C","+","+","1","1">>, <<"c","p","p">>, <<"c","p","p","1","7">>, <<"c","+","+","1","7">>,
         <<"C","+","+","1","7","O","2">>, <<"C","+","+"," ","1","7">>,
         <<"C","+","+","1","7"," ","C","l","a","n","g">>,
         <<"C","+","+","1","1"," ","C","l","a","n","g">>,
         <<"c","p","p","1","7"," ","c","l","a","n","g">>,
         <<"C","+","+","1","1"," ","N","O","I"," ","L","i","n","u","x">>,
         <<"C","+","+"," ","N","O","I"," ","L","i","n","u","x">>, <<"C">>,
         <<"C"," ","N","O","I"," ","L","i","n","u","x">>, <<"c">>, <<"C","#">>,
         <<"C","S","h","a","r","p">>,
         <<"C","+","+","1","7"," ","C","l","a","n","g"," ","N","O","I"," ","L","i","n","u","x">>,
         <<"C","+","+"," ","C","l","a","n","g">>, <<"C","+","+","1","4"," ","C","l","a","n","g">>,
         <<"C","+","+","1","4"," ","N","O","I"," ","L","i","n","u","x">>,
         <<"C","+","+","1","7"," ","N","O","I"," ","L","i","n","u","x">>,
         <<"C","+","+"," ","N","O","I">>, <<"C","+","+"," ","L","i","n","u","x">>,
         <<"C","+","+","1","7"," ","1","4"," ","1","1">>, <<"C","+","+","1","4"," ","1","1">>,
         <<"C","+","+","2","0">>, <<"C","+","+","9","8">>, <<" "," ","C"," "," ">>,
         <<" ","c","+","+","1","4"," ">>, <<"C","9","9">>, <<"C"," ","n","o","i">>,
         <<"C"," ","C","l","a","n","g">>, <<"P","y","t","h","o","n"," ","3">>, <<"J","a","v","a">>,
         <<"P","a","s","c","a","l">>, <<"R","u","s","t">>, <<"G","o">>,
         <<"J","a","v","a","S","c","r","i","p","t">>, <<"K","o","t","l","i","n">>,
         <<"H","a","s","k","e","l","l">>, <<"S","c","a","l","a">>,
         <<"P","y","P","y"," ","3"," ","N","O","I"," ","L","i","n","u","x">>, <<>>, <<" ">>,
         <<"C","P","P","1","1">>, <<"C","p","p"," ","N","O","I"," ","L","I","N","U","X">>,
        <<"\r">>,
        <<"\r","\n">>,
        <<"U+00A0">>,
        <<"C","+","+"," ","N","O","U+0130"," ","L","i","n","u","x">>,
        <<"U+3000","C","+","+","1","4","U+000B">>,
        <<"U+FF23","+","+">>,
        <<"C","+","+","U+FF11","U+FF17">>,
        <<"C","U+00A0","N","O","I"," ","L","i","n","u","x">>,
        <<"C"," ","N","O","U+0130"," ","L","U+0130","N","U","X">>}
  IN
  /\ factory = <<>>
  /\ lock = 0
  /\ pc = [t \in Threads |-> "idle"]
  /\ op = [t \in Threads |-> "none"]
  /\ url = [t \in Threads |-> <<>>]
  /\ content = [t \in Threads |-> <<>>]
  /\ candidates = [t \in Threads |-> <<>>]
  /\ ext = [t \in Threads |-> NoResult]
  /\ result = [t \in Threads |-> NoResult]
  /\ \E i \in ({"SubmissionStatus::from_str"} \X StatusTexts)
              \cup ({"SubmissionLanguage::from_str"} \X LanguageTexts)
              \cup ({"parse_time_to_ms"} \X TimeTexts)
              \cup ({"parse_mem_to_kb"} \X MemTexts) :
       norm = [fn |-> i[1], arg |-> i[2], out |-> <<>>, pc |-> "call"]

\* s.parse::<SubmissionStatus>(): out holds the Option the call returned
FromStr ==
  /\ norm.pc = "call"
  /\ norm.fn = "SubmissionStatus::from_str"
  /\ norm' = [norm EXCEPT !.out = <<SubmissionStatus_from_str(norm.arg)>>,
                          !.pc = "done"]
  /\ UNCHANGED <<factory, lock, pc, op, url, content, candidates, ext, result>>

\* s.parse::<SubmissionLanguage>()
LanguageFromStr ==
  /\ norm.pc = "call"
  /\ norm.fn = "SubmissionLanguage::from_str"
  /\ norm' = [norm EXCEPT !.out = <<SubmissionLanguage_from_str(norm.arg)>>,
                          !.pc = "done"]
  /\ UNCHANGED <<factory, lock, pc, op, url, content, candidates, ext, result>>

\* utils::parse_time_to_ms(s)
ParseTimeToMs ==
  /\ norm.pc = "call"
  /\ norm.fn = "parse_time_to_ms"
  /\ norm' = [norm EXCEPT !.out = <<parse_time_to_ms(norm.arg)>>, !.pc = "done"]
  /\ UNCHANGED <<factory, lock, pc, op, url, content, candidates, ext, result>>

\* utils::parse_mem_to_kb(s)
ParseMemToKb ==
  /\ norm.pc = "call"
  /\ norm.fn = "parse_mem_to_kb"
  /\ norm' = [norm EXCEPT !.out = <<parse_mem_to_kb(norm.arg)>>, !.pc = "done"]
  /\ UNCHANGED <<factory, lock, pc, op, url, content, candidates, ext, result>>

NextNormalize == FromStr \/ LanguageFromStr \/ ParseTimeToMs \/ ParseMemToKb

SpecNormalize == InitNormalize /\ [][NextNormalize]_vars

----------------------------------------------------------------------------
(* Properties of the registry and the factory.                             *)

\* n occurs in u when case is ignored: the two are compared in lower case
OccursIgnoringCase(u, n) ==
  LET lu == to_lowercase(u)
      ln == to_lowercase(n)
  IN  \E i \in 0..(Len(lu) - Len(ln)) : SubSeq(lu, i + 1, i + Len(ln)) = ln

\* the greatest rank any registered entry gives u, and the entries giving it
MaxRank(u) ==
  CHOOSE r \in {rank_fn(registry_items[i], u) : i \in 1..Len(registry_items)} :
    \A i \in 1..Len(registry_items) : rank_fn(registry_items[i], u) <= r

Best(u) == {i \in 1..Len(registry_items) : rank_fn(registry_items[i], u) = MaxRank(u)}

\* the registered entries with a tag or the name occurring in u
Mentioned(u) ==
  {i \in 1..Len(registry_items) :
     \/ OccursIgnoringCase(u, registry_items[i].name)
     \/ \E k \in 1..Len(registry_items[i].tags) :
          OccursIgnoringCase(u, registry_items[i].tags[k])}

\* C1: whenever some entry ranks the url above 0, the factory selects the
\* entry of the highest rank, and among several of the highest rank the one
\* registered first; create_extractor returns it.
C1_HighestRankFirstRegistered ==
  \A t \in Threads :
    (pc[t] = "done" /\ MaxRank(url[t]) > 0) =>
      /\ ext[t] = Ok_Extractor(registry_items[Least(Best(url[t]))].name)
      /\ op[t] = "create_extractor" => result[t] = ext[t]

\* a tie at the highest rank between the second and the third entry, which
\* the second wins
C1_W_TieGoesToFirstRegistered ==
  \E t \in Threads :
    /\ pc[t] = "done" /\ op[t] = "create_extractor"
    /\ MaxRank(url[t]) > 0
    /\ Best(url[t]) = {2, 3}
    /\ result[t] = Ok_Extractor(VjudgeExtractor.name)

\* C2: when every entry ranks the url at 0, create_extractor and extract
\* both return NoExtractor with the url they were given; an entry the
\* factory selects never has rank 0; and a highest rank above 0 always
\* selects an entry.
C2_ZeroRankIsNoExtractor ==
  \A t \in Threads :
    pc[t] = "done" =>
      /\ MaxRank(url[t]) = 0 => result[t] = Err_NoExtractor(url[t])
      /\ MaxRank(url[t]) > 0 => ext[t].kind = "Extractor"
      /\ ext[t].kind = "Extractor" =>
           \E i \in 1..Len(registry_items) :
             /\ registry_items[i].name = ext[t].name
             /\ rank_fn(registry_items[i], url[t]) > 0

\* extract has returned NoExtractor for a non-empty url no entry ranks
C2_W_ExtractNoExtractor ==
  \E t \in Threads :
    /\ pc[t] = "done" /\ op[t] = "extract"
    /\ url[t] # <<>> /\ MaxRank(url[t]) = 0
    /\ result[t] = Err_NoExtractor(url[t])

\* C3: the score of every candidate is 10 times the number of tags of its
\* entry that occur in the url, case ignored, plus 20 if the name of its
\* entry occurs in the url, case ignored.
C3_RankIsTenPerTagPlusTwentyForName ==
  \A t \in Threads :
    pc[t] \in {"unlock", "run", "done"} =>
      /\ Len(candidates[t]) = Len(registry_items)
      /\ \A k \in 1..Len(candidates[t]) :
           LET c == candidates[t][k]
               tags == {i \in 1..Len(c.item.tags) :
                          OccursIgnoringCase(url[t], c.item.tags[i])}
           IN  c.score = 10 * Cardinality(tags)
                           + (IF OccursIgnoringCase(url[t], c.item.name)
                              THEN 20 ELSE 0)

\* a url in which one tag of an entry occurs and, inside that tag, its name:
\* the two are summed to 30
C3_W_TagAndNameOverlap ==
  \E t \in Threads :
    /\ pc[t] = "done"
    /\ \E k \in 1..Len(candidates[t]) :
         /\ candidates[t][k].item = VjudgeExtractor
         /\ candidates[t][k].score = 30
         /\ OccursIgnoringCase(url[t], VjudgeExtractor.tags[1])
         /\ ~OccursIgnoringCase(url[t], VjudgeExtractor.tags[2])

\* C4, as stated: create_extractor returns E for every url in which a tag
\* or the name of E occurs, and NoExtractor for a url in which none occurs.
C4_ReturnsEveryMentionedExtractor ==
  \A t \in Threads :
    (pc[t] = "done" /\ op[t] = "create_extractor") =>
      /\ \A i \in Mentioned(url[t]) :
           result[t] = Ok_Extractor(registry_items[i].name)
      /\ Mentioned(url[t]) = {} => result[t] = Err_NoExtractor(url[t])

\* C4, amended: for a url in which a tag or the name of some entry occurs,
\* create_extractor returns an entry of which a tag or the name occurs in
\* the url, which is E when E is the only such entry; for a url in which
\* none occurs it returns NoExtractor.
C4_ReturnsAMentionedExtractor ==
  \A t \in Threads :
    (pc[t] = "done" /\ op[t] = "create_extractor") =>
      /\ Mentioned(url[t]) # {} =>
           \E i \in Mentioned(url[t]) :
             /\ result[t] = Ok_Extractor(registry_items[i].name)
             /\ i \in Best(url[t])
      /\ Mentioned(url[t]) = {} => result[t] = Err_NoExtractor(url[t])

\* a url that mentions one entry only, in upper case
C4_W_OnlyOneMentioned ==
  \E t \in Threads :
    /\ pc[t] = "done" /\ op[t] = "create_extractor"
    /\ Mentioned(url[t]) = {2}
    /\ ~contains(url[t], VjudgeExtractor.name)
    /\ result[t] = Ok_Extractor(VjudgeExtractor.name)

----------------------------------------------------------------------------
(* Properties of the site extractors.                                      *)

\* thread t has run the extractor of a site on its content
Extracted(t) ==
  pc[t] = "done" /\ op[t] = "extract" /\ ext[t].kind = "Extractor"

\* what the field extractors of a site find for the required fields
RequiredFields(name, u, c) ==
  LET d == parse_document(c)
  IN  CASE name = LuoguExtractor.name ->
             [pid |-> Luogu_extract_pid(d), rid |-> Luogu_extract_rid(u),
              code |-> Luogu_extract_code(d)]
        [] name = VjudgeExtractor.name ->
             [pid |-> Vjudge_extract_pid(d), rid |-> Vjudge_extract_rid(u, d),
              code |-> Vjudge_extract_code(d)]
        [] name = XinyouduiExtractor.name ->
             [pid |-> Xyd_extract_pid(u, d), rid |-> Xyd_extract_rid(d),
              code |-> Xyd_extract_code(d)]

MissingField(r, f) == r.kind = "MissingField" /\ r.field = f

\* C5: on content that is not blank, every site extractor reports the first
\* empty field in the order pid, rid, code: MissingField("pid") whenever pid
\* is empty, MissingField("rid") exactly when pid is found and rid is empty,
\* MissingField("code") exactly when pid and rid are found and code is
\* empty.
C5_FirstEmptyFieldIsReported ==
  \A t \in Threads :
    (Extracted(t) /\ result[t].kind # "EmptyContent") =>
      LET f == RequiredFields(ext[t].name, url[t], content[t])
      IN  /\ MissingField(result[t], "pid") <=> f.pid = <<>>
          /\ MissingField(result[t], "rid") <=> (f.pid # <<>> /\ f.rid = <<>>)
          /\ MissingField(result[t], "code") <=>
               (f.pid # <<>> /\ f.rid # <<>> /\ f.code = <<>>)

\* the vjudge extractor reports pid on a page where rid and code are empty
\* as well
C5_W_PidReportedBeforeRidAndCode ==
  \E t \in Threads :
    /\ Extracted(t) /\ ext[t].name = VjudgeExtractor.name
    /\ MissingField(result[t], "pid")
    /\ LET f == RequiredFields(ext[t].name, url[t], content[t])
       IN  f.pid = <<>> /\ f.rid = <<>> /\ f.code = <<>>

\* the fields of a Submission
SubmissionFields ==
  {"code", "pid", "rid", "oj", "language", "status", "total_time",
   "max_memory", "score"}

\* the first row of the selected class among nodes and their descendants
RECURSIVE FirstSelectedRow(_)
FirstSelectedRow(nodes) ==
  IF nodes = <<>> THEN <<>>
  ELSE LET n == Head(nodes)
       IN  IF n.tag = "tr" /\ <<"a","c","-","a","n","t","-","t","a","b","l","e","-","r","o","w","-","s","e","l","e","c","t","e","d">> \in n.cls
           THEN <<n>>
           ELSE IF FirstSelectedRow(n.kids) # <<>> THEN FirstSelectedRow(n.kids)
           ELSE FirstSelectedRow(Tail(nodes))

\* the input (u, c) of the extractor of a site with the required fields in
\* the set missing put in and nothing else changed: markup that the field
\* extractor finds first is put in front of the content (for the record id
\* of xyd, the selected row with a first cell that has text), and the
\* record part is added to the url of luogu
WithFieldsFound(name, missing, u, c) ==
  LET put(f, markup) == IF f \in missing THEN markup ELSE <<>>
      row == FirstSelectedRow(c)
      cells == IF row = <<>> \/ row[1].kids = <<>> THEN <<>>
               ELSE Tail(row[1].kids)
  IN  CASE name = LuoguExtractor.name ->
             [url |-> u \o put("rid", <<"/","r","e","c","o","r","d","/","1">>),
              content |->
                put("pid", <<E("a", {}, [href |-> <<"/","p","r","o","b","l","e","m","/","1">>], <<>>)>>)
                  \o put("code", <<E("code", {<<"l","a","n","g","u","a","g","e","-","c">>}, NoAttrs,
                                     <<T(<<"y">>)>>)>>)
                  \o c]
        [] name = VjudgeExtractor.name ->
             [url |-> u,
              content |->
                put("pid", <<E("h5", {<<"m","o","d","a","l","-","t","i","t","l","e">>}, NoAttrs,
                               <<E("a", {}, [href |-> <<"/","p","r","o","b","l","e","m","/","1">>], <<>>)>>)>>)
                  \o put("rid", <<E("h5", {<<"m","o","d","a","l","-","t","i","t","l","e">>}, NoAttrs,
                               <<E("a", {}, [href |-> <<"/","s","o","l","u","t","i","o","n","/","1">>], <<>>)>>)>>)
                  \o put("code", <<E("pre", {}, NoAttrs,
                                <<E("code", {}, NoAttrs, <<T(<<"y">>)>>)>>)>>)
                  \o c]
        [] name = XinyouduiExtractor.name ->
             [url |-> u,
              content |->
                put("pid", <<Span({<<"a","c","-","a","n","t","-","t","a","g">>}, <<"U+9898","U+76EE","I","D","U+FF1A","1">>)>>)
                  \o put("rid", <<E("tr", {<<"a","c","-","a","n","t","-","t","a","b","l","e","-","r","o","w","-","s","e","l","e","c","t","e","d">>}, NoAttrs,
                                    XydCells(<<<<"1">>>>) \o cells)>>)
                  \o put("code", <<E("div", {<<"c","m","-","l","i","n","e">>}, NoAttrs,
                                     <<T(<<"y">>)>>)>>)
                  \o c]

\* C6: every MissingField error of a site extractor carries the assembled
\* Submission, in which the reported field is empty and every field that is
\* not empty or has no markup to be found in has exactly the value of the
\* Submission that is returned once the missing fields are found.
C6_MissingFieldCarriesTheSubmission ==
  \A t \in Threads :
    (Extracted(t) /\ result[t].kind = "MissingField") =>
      /\ result[t].partial # <<>>
      /\ LET f == result[t].partial[1]
             missing == {g \in {"pid", "rid", "code"} : f[g] = <<>>}
             i == WithFieldsFound(ext[t].name, missing, url[t], content[t])
             r == Extractor_extract(ext[t].name, i.url, i.content)
         IN  /\ DOMAIN f = SubmissionFields
             /\ result[t].field \in missing
             /\ r.kind = "Ok"
             /\ \A g \in SubmissionFields \ missing : r.sub[1][g] = f[g]
             /\ \A g \in missing : r.sub[1][g] # <<>>

\* markup lacking only the problem link: MissingField("pid") with every
\* other field populated, none with its default
C6_W_OnlyProblemLinkMissing ==
  \E t \in Threads :
    /\ Extracted(t) /\ ext[t].name = LuoguExtractor.name
    /\ MissingField(result[t], "pid")
    /\ LET f == result[t].partial[1]
       IN  /\ f.rid # <<>> /\ f.code # <<>>
           /\ f.language = "Cpp14" /\ f.status = "Accepted"
           /\ f.total_time > 0 /\ f.max_memory > 0 /\ f.score > 0

\* C7: a Submission is returned as a success only with pid, rid and code
\* all non-empty, for every extractor and every input; a result with a
\* Submission in which one of them is empty is an error with the
\* Submission as its partial payload.
C7_OkHasRequiredFields ==
  \A t \in Threads :
    pc[t] = "done" =>
      /\ (result[t].kind = "Ok" \/ result[t].sub # <<>>) =>
           /\ result[t].kind = "Ok" /\ op[t] = "extract"
           /\ Len(result[t].sub) = 1 /\ result[t].partial = <<>>
           /\ result[t].sub[1].pid # <<>>
           /\ result[t].sub[1].rid # <<>>
           /\ result[t].sub[1].code # <<>>
      /\ (/\ result[t].partial # <<>>
          /\ \E g \in {"pid", "rid", "code"} : result[t].partial[1][g] = <<>>) =>
           result[t].kind = "MissingField" /\ result[t].sub = <<>>

\* the xyd extractor has returned a Submission
C7_W_XydSucceeds ==
  \E t \in Threads :
    /\ Extracted(t) /\ ext[t].name = XinyouduiExtractor.name
    /\ result[t].kind = "Ok"
    /\ result[t].sub[1].code # <<>>

\* content that is empty or consists of white space only
IsBlank(c) ==
  \A k \in 1..Len(c) :
    c[k].tag = "#text" /\ \A j \in 1..Len(c[k].txt) : c[k].txt[j] \in White

\* C8: on content that is empty or only white space, every site extractor
\* returns the EmptyContent error, with no field named and no partial
\* Submission.
C8_BlankContentIsEmptyContent ==
  \A t \in Threads :
    (Extracted(t) /\ IsBlank(content[t])) =>
      /\ result[t].kind = "EmptyContent"
      /\ result[t].partial = <<>> /\ result[t].sub = <<>>
      /\ result[t].field = NoResult.field

\* the xyd extractor has rejected content of white space, on a url it would
\* have found the pid in
C8_W_WhitespaceOnly ==
  \E t \in Threads :
    /\ Extracted(t) /\ ext[t].name = XinyouduiExtractor.name
    /\ content[t] # <<>> /\ IsBlank(content[t])
    /\ Xyd_RECORD_REGEX(url[t]) # <<>>
    /\ result[t].kind = "EmptyContent"

\* the well-formed texts of the optional fields that the pages use
WellFormed ==
  [language |-> {<<"C","+","+","1","4">>},
   status |-> {serialize(v) : v \in SubmissionStatus},
   total_time |-> {<<"1","2","m","s">>, <<"2",".","3","3","s">>, <<"1","8","8","6","m","s">>, <<"1","8","8","6">>, <<"-","5","m","s">>,
                   <<"t","i","m","e",":"," ","3","5","0","m","s",","," ","m","e","m","o","r","y",":"," ","1","4","1","6","2","8","k","b">>},
   max_memory |-> {<<"6","4","k","B">>, <<"1",".","5","5","M","B">>, <<"1","0","7","5","2","k","B">>, <<"1","0",".","8">>, <<"-","1","m">>,
                   <<"t","i","m","e",":"," ","3","5","0","m","s",","," ","m","e","m","o","r","y",":"," ","1","4","1","6","2","8","k","b">>},
   score |-> {<<"1","0","0">>, <<"1","0","0"," ","U+5206">>, <<"A","c","c","e","p","t","e","d">>, <<"P","a","r","t","i","a","l","l","y"," ","C","o","r","r","e","c","t">>}]

\* the defaults of the optional fields
Defaults ==
  [language |-> SubmissionLanguage_default, status |-> SubmissionStatus_default,
   total_time |-> 0, max_memory |-> 0, score |-> 0]

Texts(part) == {part[k] : k \in 1..Len(part)}

Cell(row, k) == IF row # <<>> /\ Len(row[1]) >= k THEN {row[1][k]} ELSE {}

\* the texts a page built from parts p has in the markup of each optional
\* field (the score of vjudge is read off the status)
LuoguMarkup(p) ==
  [language |-> Texts(p[1]), total_time |-> Texts(p[2]),
   max_memory |-> Texts(p[3]), status |-> Texts(p[4]), score |-> Texts(p[5])]

VjudgeMarkup(p) ==
  [language |-> Texts(p[6]), total_time |-> Texts(p[4]) \cup Texts(p[9]),
   max_memory |-> Texts(p[5]) \cup Texts(p[10]), status |-> Texts(p[3]),
   score |-> Texts(p[3])]

XydMarkup(p) ==
  [language |-> Cell(p[2], 2), status |-> Cell(p[2], 3), score |-> Cell(p[2], 4),
   total_time |-> Texts(p[4]), max_memory |-> Texts(p[4])]

\* the markup of the optional fields of the content c given to the
\* extractor name
MarkupOf(name, c) ==
  CASE name = LuoguExtractor.name ->
         {LuoguMarkup(p) : p \in {q \in LuoguParts : LuoguPageOf[q] = c}}
    [] name = VjudgeExtractor.name ->
         {VjudgeMarkup(p) : p \in {q \in VjudgeParts : VjudgePageOf[q] = c}}
    [] name = XinyouduiExtractor.name ->
         {XydMarkup(p) : p \in {q \in XydParts : XydPageOf[q] = c}}

\* the Submission of a result, returned or carried by the error
SubmissionOf(r) == IF r.kind = "Ok" THEN r.sub[1] ELSE r.partial[1]

\* C9: on content that is not blank and in which pid, rid and code are
\* found, extract succeeds whatever the markup of the optional fields is;
\* an optional field with no well-formed markup has its default in the
\* Submission; and an extractor returns no other errors than EmptyContent
\* and MissingField.
C9_OptionalFieldsDegradeToDefaults ==
  \A t \in Threads :
    Extracted(t) =>
      LET f == RequiredFields(ext[t].name, url[t], content[t])
      IN  /\ result[t].kind \in {"Ok", "EmptyContent", "MissingField"}
          /\ (~IsBlank(content[t]) /\ f.pid # <<>> /\ f.rid # <<>> /\ f.code # <<>>)
               => result[t].kind = "Ok"
          /\ result[t].kind \in {"Ok", "MissingField"} =>
               \A m \in MarkupOf(ext[t].name, content[t]) :
                 \A g \in DOMAIN Defaults :
                   m[g] \cap WellFormed[g] = {} =>
                     SubmissionOf(result[t])[g] = Defaults[g]

\* extract has succeeded on a luogu page with markup for each of the five
\* optional fields, none of it well-formed
C9_W_SucceedsOnUnparseableOptionalMarkup ==
  \E t \in Threads :
    /\ Extracted(t) /\ ext[t].name = LuoguExtractor.name
    /\ result[t].kind = "Ok"
    /\ \E m \in MarkupOf(ext[t].name, content[t]) :
         \A g \in DOMAIN Defaults : m[g] # {} /\ m[g] \cap WellFormed[g] = {}
    /\ \A g \in DOMAIN Defaults : result[t].sub[1][g] = Defaults[g]

----------------------------------------------------------------------------
(* Properties of the normalizers.                                          *)

\* C10: the status classifier maps the English verdicts and the verdicts in
\* the language of the sites into the set of statuses; "accepted" and
\* "U+901A U+8FC7" both classify to Accepted.
C10_EnglishAndNativeVerdictsClassify ==
  (norm.pc = "done" /\ norm.fn = "SubmissionStatus::from_str") =>
    /\ norm.arg \in EnglishVerdicts \cup NativeVerdicts =>
         norm.out[1] # <<>> /\ norm.out[1][1] \in SubmissionStatus
    /\ norm.arg = <<"a","c","c","e","p","t","e","d">> => norm.out[1] = <<"Accepted">>
    /\ norm.arg = <<"U+901A","U+8FC7">> => norm.out[1] = <<"Accepted">>

\* the eight names SubmissionStatus::from_str recognizes, after its
\* normalization of the text
Recognized(s) ==
  to_lowercase(remove_all(s, <<" ">>)) \in
    {to_lowercase(remove_all(v, <<" ">>)) : v \in EnglishVerdicts}

\* C11: the status classifier returns a status for every text, never an
\* error, and the status of a text it does not recognize is Unknown.
C11_UnrecognizedIsUnknownNeverError ==
  (norm.pc = "done" /\ norm.fn = "SubmissionStatus::from_str") =>
    /\ norm.out[1] # <<>>
    /\ ~Recognized(norm.arg) => norm.out[1] = <<"Unknown">>

\* s without its last n characters
DropLast(s, n) == SubSeq(s, 1, Len(s) - n)

\* the time a text stands for when only a unit at its end counts: the number
\* before a final "ms" as milliseconds, the number before a final "s" as
\* seconds, a bare number as milliseconds, truncated
TimeByFinalUnit(s) ==
  LET txt == trim(s)
      lower == to_lowercase(txt)
  IN  IF ends_with(lower, <<"m","s">>)
      THEN map_as_i32(f64_from_str(trim(DropLast(lower, 2))))
      ELSE IF ends_with(lower, <<"s">>)
      THEN LET v == f64_from_str(trim(DropLast(lower, 1)))
           IN  IF v = <<>> THEN <<>> ELSE <<as_i32(f64_mul(v[1], 1000))>>
      ELSE map_as_i32(f64_from_str(txt))

\* C12: parse_time_to_ms trims the text and reads a final "ms" as
\* milliseconds, a final "s" as seconds, no unit as milliseconds, truncating;
\* empty and non-numeric text, and text with "ms" or "s" anywhere but at the
\* end, is unparseable; "100ms" is 100, "0.2s" is 200 and "  50  " is 50.
C12_TimeUnitOnlyAtTheEnd ==
  (norm.pc = "done" /\ norm.fn = "parse_time_to_ms") =>
    /\ norm.out[1] = TimeByFinalUnit(norm.arg)
    /\ norm.arg = <<"1","0","0","m","s">> => norm.out[1] = <<100>>
    /\ norm.arg = <<"0",".","2","s">> => norm.out[1] = <<200>>
    /\ norm.arg = <<" "," ","5","0"," "," ">> => norm.out[1] = <<50>>
    /\ norm.arg \in {<<>>, <<"a","b","c">>, <<"m","s","1","0","0">>, <<"s","5">>, <<"1","s","2">>} => norm.out[1] = <<>>

\* the size a text stands for by the unit at its end, the units taken in the
\* order mb, m, kb, k, b, none: the number before the unit times 1024, as it
\* is, or divided by 1024, truncated; nothing when no number stands before
\* the unit
MemBySuffix(s) ==
  LET txt == trim(s)
      lower == to_lowercase(txt)
      unit == IF ends_with(lower, <<"m","b">>) THEN <<"m","b">>
              ELSE IF ends_with(lower, <<"m">>) THEN <<"m">>
              ELSE IF ends_with(lower, <<"k","b">>) THEN <<"k","b">>
              ELSE IF ends_with(lower, <<"k">>) THEN <<"k">>
              ELSE IF ends_with(lower, <<"b">>) THEN <<"b">>
              ELSE <<>>
      v == f64_from_str(trim(DropLast(lower, Len(unit))))
  IN  IF v = <<>> THEN <<>>
      ELSE IF unit \in {<<"m","b">>, <<"m">>} THEN <<as_i32(f64_mul(v[1], 1024))>>
      ELSE IF unit = <<"b">> THEN <<as_i32(f64_div(v[1], 1024))>>
      ELSE <<as_i32(v[1])>>

\* C13: parse_mem_to_kb trims the text and takes the unit at its end, in the
\* order mb/m, kb/k, b, none, in any case: the value times 1024, unchanged,
\* divided by 1024, unchanged, truncated; "1MB" is 1024, "512K" is 512,
\* "256" is 256; a text ending in "mb" or "kb" is not taken for bytes.
C13_MemUnitsInPriorityOrder ==
  (norm.pc = "done" /\ norm.fn = "parse_mem_to_kb") =>
    /\ MemBySuffix(norm.arg) # <<>> => norm.out[1] = MemBySuffix(norm.arg)
    /\ norm.arg = <<"1","M","B">> => norm.out[1] = <<1024>>
    /\ norm.arg = <<"5","1","2","K">> => norm.out[1] = <<512>>
    /\ norm.arg = <<"2","5","6">> => norm.out[1] = <<256>>

\* a size in megabytes: the final "b" does not make it bytes
C13_W_MegabytesNotBytes ==
  /\ norm.pc = "done" /\ norm.fn = "parse_mem_to_kb"
  /\ norm.arg = <<"1",".","5","M","B">>
  /\ norm.out[1] = <<1536>>

\* C14: in every Submission a site extractor produces, returned as the
\* success or as the partial payload of an error, total_time and max_memory
\* are not below 0, whatever the markup, a time or a memory size with a
\* leading minus sign included.
C14_TimeAndMemoryNotNegative ==
  \A t \in Threads :
    (Extracted(t) /\ (result[t].kind = "Ok" \/ result[t].partial # <<>>)) =>
      /\ SubmissionOf(result[t]).total_time >= 0
      /\ SubmissionOf(result[t]).max_memory >= 0

\* the trimmed, lower-cased text names C++, names C (the word c alone or
\* before a blank), mentions NOI Linux
NamesCpp(txt) == contains(txt, <<"c","+","+">>) \/ contains(txt, <<"c","p","p">>)

NamesC(txt) == txt = <<"c">> \/ starts_with(txt, <<"c"," ">>)

NoiLinux(txt) == contains(txt, <<"n","o","i">>) /\ contains(txt, <<"l","i","n","u","x">>)

\* C15: on text naming C++ the language classifier returns, with clang,
\* Cpp17Clang when the text contains "17" and Cpp11Clang otherwise, NOI Linux
\* or not; else with NOI Linux, Cpp11NoiLinux when it contains "11" and
\* CppNoiLinux otherwise; else Cpp17, Cpp14, Cpp11 for the first of "17",
\* "14", "11" it contains and Cpp for none; on text naming C and not C++,
\* CNoiLinux with NOI Linux and C without; and every language it returns is
\* one of the closed set.
C15_LanguageByCompilerAndStandard ==
  (norm.pc = "done" /\ norm.fn = "SubmissionLanguage::from_str") =>
    LET txt == to_lowercase(trim(norm.arg))
        clang == contains(txt, <<"c","l","a","n","g">>)
        lang == norm.out[1]
    IN  /\ lang # <<>> => lang[1] \in SubmissionLanguage
        /\ txt # <<>> => lang # <<>>
        /\ (NamesCpp(txt) /\ clang) =>
             lang = IF contains(txt, <<"1","7">>) THEN <<"Cpp17Clang">> ELSE <<"Cpp11Clang">>
        /\ (NamesCpp(txt) /\ ~clang /\ NoiLinux(txt)) =>
             lang = IF contains(txt, <<"1","1">>) THEN <<"Cpp11NoiLinux">>
                    ELSE <<"CppNoiLinux">>
        /\ (NamesCpp(txt) /\ ~clang /\ ~NoiLinux(txt)) =>
             /\ contains(txt, <<"1","7">>) => lang = <<"Cpp17">>
             /\ (~contains(txt, <<"1","7">>) /\ contains(txt, <<"1","4">>)) => lang = <<"Cpp14">>
             /\ (~contains(txt, <<"1","7">>) /\ ~contains(txt, <<"1","4">>) /\ contains(txt, <<"1","1">>))
                  => lang = <<"Cpp11">>
             /\ (~contains(txt, <<"1","7">>) /\ ~contains(txt, <<"1","4">>) /\ ~contains(txt, <<"1","1">>))
                  => lang = <<"Cpp">>
        /\ (NamesC(txt) /\ ~NamesCpp(txt)) =>
             lang = IF NoiLinux(txt) THEN <<"CNoiLinux">> ELSE <<"C">>

\* C++ 17 of clang on NOI Linux: clang decides
C15_W_ClangBeforeNoiLinux ==
  /\ norm.pc = "done" /\ norm.fn = "SubmissionLanguage::from_str"
  /\ norm.arg = <<"C","+","+","1","7"," ","C","l","a","n","g"," ","N","O","I"," ","L","i","n","u","x">>
  /\ norm.out[1] = <<"Cpp17Clang">>

\* names of languages other than C and C++
OtherLanguages ==
  {<<"C","#">>, <<"C","S","h","a","r","p">>, <<"P","y","t","h","o","n"," ","3">>, <<"J","a","v","a">>, <<"P","a","s","c","a","l">>, <<"R","u","s","t">>, <<"G","o">>,
   <<"J","a","v","a","S","c","r","i","p","t">>, <<"K","o","t","l","i","n">>, <<"H","a","s","k","e","l","l">>, <<"S","c","a","l","a">>}

\* C16: text naming neither C nor C++, such as "C#", "CSharp" or the name of
\* another language, classifies to the default Cpp17: to no other variant of
\* C or C++, and to no failure.
C16_OtherLanguagesAreCpp17 ==
  (norm.pc = "done" /\ norm.fn = "SubmissionLanguage::from_str"
     /\ norm.arg \in OtherLanguages) =>
    norm.out[1] = <<SubmissionLanguage_default>>

----------------------------------------------------------------------------
(* Properties of the shared factory under concurrent callers.              *)

\* what extract(u, c) returns on a factory nobody has used before
ExtractAlone(u, c) ==
  LET e == ExtractorFactory_create_extractor(
             create_extractor_candidates(ExtractorFactory_new, u), u)
  IN  IF e.kind = "NoExtractor" THEN e ELSE Extractor_extract(e.name, u, c)

\* C17: extract is deterministic and independent of the history: whatever
\* calls of extract and create_extractor came before or run beside it, a call
\* with the same url and content returns the same result, the Submission or
\* the error with its partial Submission.
C17_ExtractIsAFunctionOfItsArguments ==
  \A t \in Threads :
    (pc[t] = "done" /\ op[t] = "extract") =>
      result[t] = ExtractAlone(url[t], content[t])

\* two callers have returned from extract with the same arguments, a url
\* that two extractors rank alike, with one and the same error and partial
\* Submission
C17_W_SameArgumentsSameResult ==
  /\ pc[1] = "done" /\ pc[2] = "done"
  /\ op[1] = "extract" /\ op[2] = "extract"
  /\ url[1] = <<"x","y","d","V","J">> /\ url[2] = url[1]
  /\ content[1] # <<T(<<" ">>)>> /\ content[2] = content[1]
  /\ result[1].partial # <<>>
  /\ result[2] = result[1]

\* the names of the entries of the factory, in their order
RegisteredNames ==
  [i \in 1..Len(factory[1].extractors) |-> factory[1].extractors[i].name]

\* C18: the registry is built once, at the first use, also when the first
\* calls arrive together: there is none before a caller dereferences FACTORY,
\* there is one as soon as a caller has, it holds the entries luogu, vjudge,
\* xyd in this order, and the only step that changes it is the deref that
\* builds it: no step of a create_extractor or extract call changes it after.
C18_RegistryBuiltOnceAndNeverChanged ==
  /\ factory = <<>>
  /\ [](/\ factory = <<>> => \A t \in Threads : pc[t] \in {"idle", "force"}
        /\ factory # <<>> =>
             /\ factory = <<ExtractorFactory_new>>
             /\ RegisteredNames = <<LuoguExtractor.name, VjudgeExtractor.name,
                                    XinyouduiExtractor.name>>)
  /\ [][factory' # factory =>
          /\ factory = <<>>
          /\ \E t \in Threads : pc[t] = "force" /\ pc'[t] = "lock"]_vars

\* the first two calls have arrived together: both callers have dereferenced
\* FACTORY before either took the lock, and there is the one registry
C18_W_FirstCallsTogether ==
  /\ \A t \in Threads : pc[t] = "lock"
  /\ lock = 0
  /\ factory = <<ExtractorFactory_new>>
  /\ Len(factory[1].extractors) = 3

\* the callers holding the lock of FACTORY: those selecting an extractor
Holders == {t \in Threads : pc[t] \in {"select", "unlock"}}

\* C19: in every interleaving of concurrent calls at most one caller holds
\* the lock of the factory, a caller holds it only while its extractor is
\* selected, and has released it before the extractor it selected runs.
C19_LockHeldOnlyWhileSelecting ==
  /\ Cardinality(Holders) <= 1
  /\ \A t \in Threads : lock = t <=> t \in Holders
  /\ lock = 0 <=> Holders = {}
  /\ \A t \in Threads : pc[t] = "run" => lock # t

\* two extractions are in progress at the same time, and the lock is free
C19_W_TwoExtractionsInProgress ==
  /\ pc[1] = "run" /\ pc[2] = "run"
  /\ op[1] = "extract" /\ op[2] = "extract"
  /\ lock = 0

\* the results a call returns with: an extractor, a Submission, or an error
Returned ==
  {"Extractor", "Ok", "NoExtractor", "EmptyContent", "MissingField"}

\* C20: under fair scheduling every call of extract, in every interleaving
\* of the concurrent callers, returns in the end, with a Submission or with
\* an error: none waits for the lock of the factory for ever, none stops on
\* the way whatever the input; and when all calls have returned the lock is
\* free.
C20_EveryCallReturns ==
  /\ \A t \in Threads :
       (pc[t] \notin {"idle", "done"} /\ op[t] = "extract")
         ~> (pc[t] = "done" /\ result[t].kind \in Returned \ {"Extractor"})
  /\ \A t \in Threads : pc[t] = "lock" ~> pc[t] = "select"
  /\ []((\A t \in Threads : pc[t] \in {"idle", "done"}) => lock = 0)

\* the calls have all returned, one with a Submission and one with an error
\* for malformed content, and the lock is free
C20_W_AllReturnedLockFree ==
  /\ \A t \in Threads : pc[t] = "done" /\ op[t] = "extract"
  /\ \E t \in Threads : result[t].kind = "Ok"
  /\ \E t \in Threads : result[t].kind = "MissingField"
  /\ lock = 0

----------------------------------------------------------------------------
(* Properties of the field extractors.                                     *)

\* the call of thread t has returned a Submission of the extractor name, as
\* the success or as the partial payload of an error
Produced(t, name) ==
  /\ Extracted(t) /\ ext[t].name = name
  /\ result[t].kind = "Ok" \/ result[t].partial # <<>>

\* C21: in every Submission of the vjudge extractor the score is given by
\* the status alone: 100 for Accepted, 50 for PartiallyCorrect, 0 for every
\* other status, Unknown included.
C21_VjudgeScoreFollowsStatus ==
  \A t \in Threads :
    Produced(t, VjudgeExtractor.name) =>
      LET sub == SubmissionOf(result[t])
      IN  /\ sub.status \in SubmissionStatus
          /\ sub.status = "Accepted" => sub.score = 100
          /\ sub.status = "PartiallyCorrect" => sub.score = 50
          /\ sub.status \notin {"Accepted", "PartiallyCorrect"} => sub.score = 0

\* a partially correct submission of vjudge, with its 50
C21_W_PartiallyCorrectIsFifty ==
  \E t \in Threads :
    /\ Produced(t, VjudgeExtractor.name)
    /\ SubmissionOf(result[t]).status = "PartiallyCorrect"
    /\ SubmissionOf(result[t]).score = 50


\* the parts of the vjudge pages that read as content c
VjudgePartsOf(c) == {q \in VjudgeParts : VjudgePageOf[q] = c}

\* the run id the solution anchor of a vjudge page yields, if any: what
\* follows /solution/ in its href, when something does
RidOfAnchor(slink) ==
  IF slink = <<>> \/ ~starts_with(slink[1], <<"/","s","o","l","u","t","i","o","n","/">>) THEN <<>>
  ELSE SubSeq(slink[1], Len(<<"/","s","o","l","u","t","i","o","n","/">>) + 1, Len(slink[1]))

\* the ids of the rows of a vjudge page that are numeric: digits, and at
\* least one
NumericIds(rowid) == SelectSeq(rowid, LAMBDA i : i # <<>> /\ i \in Seq(Digits))

\* C22: the rid of the vjudge extractor is the run id of the url whenever the
\* url has one, whatever the document; else the run id of the solution anchor
\* whenever it yields one; the rows of the table count only after both; and
\* rid is empty only when the url, the anchors and the rows all yield none.
C22_RidFallbackOrder ==
  \A t \in Threads :
    Produced(t, VjudgeExtractor.name) =>
      \A q \in VjudgePartsOf(content[t]) :
        LET rid == SubmissionOf(result[t]).rid
            u == Vjudge_RECORD_REGEX(url[t])
            a == RidOfAnchor(q[1])
            r == NumericIds(q[8])
        IN  /\ u # <<>> => rid = u[1]
            /\ (u = <<>> /\ a # <<>>) => rid = a
            /\ rid = <<>> => (u = <<>> /\ a = <<>> /\ r = <<>>)


\* the luogu page with code and pre elements b, and nothing else that varies
LuoguPageWith(b) ==
  LuoguPage(<<>>, <<>>, <<>>, <<>>, <<>>, <<<<"/","p","r","o","b","l","e","m","/","1","2">>>>, <<>>) \o b

\* the text of an element of LuoguCodeBlocks
BlockText(e) == IF e.kids = <<>> THEN <<>> ELSE e.kids[1].txt

\* the elements of b with tag tg, and those of them with a class that
\* contains "language-"
Tagged(b, tg) == SelectSeq(b, LAMBDA e : e.tag = tg)

Marked(b) ==
  SelectSeq(Tagged(b, "code"), LAMBDA e : \E c \in e.cls : contains(c, <<"l","a","n","g","u","a","g","e","-">>))

\* the element the luogu code is taken from, if any: the first marked code
\* element, else the first code element, else the first pre element
CodeSource(b) ==
  IF Marked(b) # <<>> THEN <<Marked(b)[1]>>
  ELSE IF Tagged(b, "code") # <<>> THEN <<Tagged(b, "code")[1]>>
  ELSE IF Tagged(b, "pre") # <<>> THEN <<Tagged(b, "pre")[1]>>
  ELSE <<>>

\* C23 as stated: the luogu code is the text of the first code element with
\* a class that contains "language-", else of the first code element, else of
\* the first pre element; and it is empty only when the document has neither
\* a code nor a pre element with text.
C23_CodeEmptyOnlyWithoutCodeOrPreText ==
  \A t \in Threads :
    Produced(t, LuoguExtractor.name) =>
      \A b \in LuoguCodeBlocks :
        content[t] = LuoguPageWith(b) =>
          LET code == SubmissionOf(result[t]).code
          IN  /\ CodeSource(b) # <<>> => code = trim(BlockText(CodeSource(b)[1]))
              /\ code = <<>> =>
                   \A k \in 1..Len(b) :
                     b[k].tag \in {"code", "pre"} => trim(BlockText(b[k])) = <<>>

\* C23, amended: the luogu code is the trimmed text of the first code
\* element with a class that contains "language-", else of the first code
\* element, else of the first pre element; and it is empty only when the
\* document has neither a code nor a pre element, or the element so chosen
\* has no text but white space.
C23_CodeFromMarkedCodeThenCodeThenPre ==
  \A t \in Threads :
    Produced(t, LuoguExtractor.name) =>
      \A b \in LuoguCodeBlocks :
        content[t] = LuoguPageWith(b) =>
          LET code == SubmissionOf(result[t]).code
          IN  /\ CodeSource(b) # <<>> => code = trim(BlockText(CodeSource(b)[1]))
              /\ code = <<>> =>
                   \/ CodeSource(b) = <<>>
                   \/ trim(BlockText(CodeSource(b)[1])) = <<>>

\* extract has taken the code of a page from its second code element, the
\* first with a language- class
C23_W_MarkedCodeAfterPlainCode ==
  \E t \in Threads :
    /\ Produced(t, LuoguExtractor.name)
    /\ \E b \in LuoguCodeBlocks :
         /\ content[t] = LuoguPageWith(b)
         /\ Marked(b) # <<>> /\ Marked(b)[1] # Tagged(b, "code")[1]
         /\ SubmissionOf(result[t]).code = trim(BlockText(Marked(b)[1]))
         /\ SubmissionOf(result[t]).code # trim(BlockText(Tagged(b, "code")[1]))


\* the parts of the xyd pages that read as content c
XydPartsOf(c) == {q \in XydParts : XydPageOf[q] = c}

\* the digits of the problem id marker of a tag, if the tag has the marker;
\* the decimal digits of every script are digits
MarkerDigits(tag) ==
  LET lit == <<"U+9898","U+76EE","I","D","U+FF1A">>
  IN  IF tag # <<>> /\ starts_with(tag[1], lit) /\ Len(tag[1]) > Len(lit)
         /\ \A k \in (Len(lit) + 1)..Len(tag[1]) : tag[1][k] \in Nd
      THEN <<SubSeq(tag[1], Len(lit) + 1, Len(tag[1]))>>
      ELSE <<>>

\* C24: when a tag element of an xyd page has the problem id marker, pid is
\* the digits of the marker, also under a url with another problem number;
\* the problem number of the url is pid only when no tag has the marker.
C24_PidMarkerBeforeUrl ==
  \A t \in Threads :
    Produced(t, XinyouduiExtractor.name) =>
      \A q \in XydPartsOf(content[t]) :
        LET pid == SubmissionOf(result[t]).pid
        IN  /\ MarkerDigits(q[1]) # <<>> => pid = MarkerDigits(q[1])[1]
            /\ MarkerDigits(q[1]) = <<>> =>
                 pid = unwrap_or(Xyd_RECORD_REGEX(url[t]), <<>>)

\* extract has taken the pid of the marker on a page whose url has another
\* problem number
C24_W_MarkerOverUrlNumber ==
  \E t \in Threads :
    /\ Produced(t, XinyouduiExtractor.name)
    /\ Xyd_RECORD_REGEX(url[t]) = <<<<"1","5">>>>
    /\ \E q \in XydPartsOf(content[t]) : MarkerDigits(q[1]) = <<<<"2","3">>>>
    /\ SubmissionOf(result[t]).pid = <<"2","3">>


\* a line without the white space at its end
Stripped(l) ==
  LET ends == {k \in 0..Len(l) : k = 0 \/ l[k] \notin White}
  IN  SubSeq(l, 1, CHOOSE k \in ends : \A j \in ends : j <= k)

\* the lines, stripped, each followed by a newline
RECURSIVE LinesWithNewlines(_)
LinesWithNewlines(lines) ==
  IF lines = <<>> THEN <<>>
  ELSE Stripped(Head(lines)) \o <<"\n">> \o LinesWithNewlines(Tail(lines))

\* C25: the code of an xyd page is the texts of its line elements in the
\* order of the document, each without the white space at its end, joined
\* by newlines and followed by one newline; it is empty exactly when the
\* document has no line element.
C25_CodeIsTheLinesJoined ==
  \A t \in Threads :
    Produced(t, XinyouduiExtractor.name) =>
      \A q \in XydPartsOf(content[t]) :
        LET code == SubmissionOf(result[t]).code
        IN  /\ code = LinesWithNewlines(q[3])
            /\ code = <<>> <=> q[3] = <<>>

\* extract has joined three lines of an xyd page, one of them empty and one
\* with white space at its end
C25_W_ThreeLinesJoined ==
  \E t \in Threads :
    /\ Produced(t, XinyouduiExtractor.name)
    /\ \E q \in XydPartsOf(content[t]) :
         /\ Len(q[3]) = 3 /\ q[3][2] = <<>> /\ Stripped(q[3][3]) # q[3][3]
    /\ SubmissionOf(result[t]).code = <<" ","x","\n","\n","y","\n">>


\* the time and the memory the primary elements of a vjudge page give: those
\* of the first element of class runtime and of the first of class memory, 0
\* when there is none or its text is no time or memory
PrimaryTimeAndMemory(c) ==
  LET d == parse_document(c)
      runtime == select(d, <<Sel("*", {<<"r","u","n","t","i","m","e">>})>>)
      memory == select(d, <<Sel("*", {<<"m","e","m","o","r","y">>})>>)
  IN  [total_time |->
         IF runtime = <<>> THEN 0
         ELSE unwrap_or(parse_time_to_ms(trim(text(d, runtime[1]))), 0),
       max_memory |->
         IF memory = <<>> THEN 0
         ELSE unwrap_or(parse_mem_to_kb(trim(text(d, memory[1]))), 0)]

\* C26: a time or a memory that the primary element of a vjudge page gives,
\* other than 0, is the one of the Submission: the rows of the info panel
\* supply only the value that is still 0.
C26_PrimaryTimeAndMemoryKept ==
  \A t \in Threads :
    Produced(t, VjudgeExtractor.name) =>
      LET first == PrimaryTimeAndMemory(content[t])
          sub == SubmissionOf(result[t])
      IN  /\ first.total_time # 0 => sub.total_time = first.total_time
          /\ first.max_memory # 0 => sub.max_memory = first.max_memory


\* the parts of the luogu pages that read as content c
LuoguPartsOf(c) == {q \in LuoguParts : LuoguPageOf[q] = c}

\* C27: the status of a luogu Submission is the verdict shown in the row of
\* the judging status, for each verdict of the set of statuses, those of
\* more than one word among them.
C27_LuoguStatusIsTheVerdictShown ==
  \A t \in Threads :
    Produced(t, LuoguExtractor.name) =>
      \A q \in LuoguPartsOf(content[t]) :
        \A v \in SubmissionStatus :
          q[4] = <<serialize(v)>> => SubmissionOf(result[t]).status = v


\* C28: when neither the url nor an anchor gives the rid of a vjudge page,
\* rid is the id of the first row of the document whose id is digits, and at
\* least one; rows with an empty id or with an id that has another character
\* are passed over.
C28_RidOfFirstNumericRow ==
  \A t \in Threads :
    Produced(t, VjudgeExtractor.name) =>
      \A q \in VjudgePartsOf(content[t]) :
        (Vjudge_RECORD_REGEX(url[t]) = <<>> /\ q[1] = <<>>) =>
          SubmissionOf(result[t]).rid =
            IF NumericIds(q[8]) = <<>> THEN <<>> ELSE NumericIds(q[8])[1]


----------------------------------------------------------------------------
(* Properties of extract and of the wire form.                             *)

\* C29: for a url in which no name and no tag of an entry occurs, extract
\* returns NoExtractor with the url, whatever the content is, blank content
\* included, and runs no extractor; EmptyContent is returned only for a url
\* for which the factory has selected an extractor.
C29_NoExtractorBeforeEmptyContent ==
  \A t \in Threads :
    op[t] = "extract" =>
      /\ Mentioned(url[t]) = {} =>
           /\ pc[t] # "run"
           /\ pc[t] = "done" => result[t] = Err_NoExtractor(url[t])
      /\ result[t].kind = "EmptyContent" =>
           Mentioned(url[t]) # {} /\ ext[t].kind = "Extractor"

\* extract has returned NoExtractor on blank content
C29_W_NoExtractorOnBlankContent ==
  \E t \in Threads :
    /\ pc[t] = "done" /\ op[t] = "extract"
    /\ Mentioned(url[t]) = {} /\ content[t] # <<>> /\ IsBlank(content[t])
    /\ result[t] = Err_NoExtractor(url[t])


\* C30: the classifiers take the string each value is written as back to the
\* value: each of the 8 statuses, and each of the 10 languages.
C30_SerializedStringsClassifyBack ==
  norm.pc = "done" =>
    /\ norm.fn = "SubmissionStatus::from_str" =>
         \A v \in SubmissionStatus :
           norm.arg = serialize(v) => norm.out[1] = <<v>>
    /\ norm.fn = "SubmissionLanguage::from_str" =>
         \A v \in SubmissionLanguage :
           norm.arg = serialize(v) => norm.out[1] = <<v>>

\* the status classifier has taken "Wrong Answer", as WrongAnswer is written,
\* back to WrongAnswer
C30_W_WrongAnswerClassifiesBack ==
  /\ norm.pc = "done" /\ norm.fn = "SubmissionStatus::from_str"
  /\ norm.arg = serialize("WrongAnswer") /\ norm.arg = <<"W","r","o","n","g"," ","A","n","s","w","e","r">>
  /\ norm.out[1] = <<"WrongAnswer">>

====
